---- MODULE Spec2Model ----
(***************************************************************************)
(* The label placement and occlusion engine of tangram-es                  *)
(* (core/src/labels/labels.cpp, core/src/labels/textLabel.cpp).            *)
(*                                                                         *)
(* Screen coordinates are integer pixels, vec2 values are pairs <<x, y>>.  *)
(* Floating point zoom levels are kept in tenths (149 is zoom 14.9).       *)
(* Label dimensions are even numbers of pixels so that half extents are    *)
(* integers.  Rotations are limited to multiples of 90 degrees.            *)
(***************************************************************************)
EXTENDS Integers, Sequences, FiniteSets, TLC

VARIABLES
    scene,              \* the frame-independent inputs: labels as constructed, tiles, markers
    env,                \* the inputs a frame may be called with (zooms, tile lists, dt, ...)
    view,               \* ViewState and arguments of the running updateLabelSet call
    lab,                \* per label: state, alpha, occlusion flags, anchorIndex, screenCenter
    m_labels,           \* Labels::m_labels, sequence of LabelEntry
    m_selectionLabels,  \* Labels::m_selectionLabels
    m_transforms,       \* screen transform arena
    m_obbs,             \* OBB arena
    m_isect2d,          \* broad-phase index: the AABBs inserted, with their payload
    m_repeatGroups,     \* repeatGroup -> sequence of labels registered
    m_lastZoom,         \* Labels::m_lastZoom (tenths)
    m_needUpdate,       \* Labels::m_needUpdate
    pc,                 \* position inside updateLabelSet
    cur,                \* index of the next entry of the loop that is running
    hist                \* history of the running frame (what was called, in which order)

vars == << scene, env, view, lab, m_labels, m_selectionLabels, m_transforms, m_obbs,
           m_isect2d, m_repeatGroups, m_lastZoom, m_needUpdate, pc, cur, hist >>

(***************************************************************************)
(* Bounds of the model                                                     *)
(***************************************************************************)
MaxFrames == 2

(***************************************************************************)
(* Small helpers                                                           *)
(***************************************************************************)
Abs(a) == IF a < 0 THEN -a ELSE a

Max(a, b) == IF a < b THEN b ELSE a

Min(a, b) == IF a < b THEN a ELSE b

Range(f) == { f[i] : i \in DOMAIN f }

SubSeqFrom(s, a, n) == [ i \in 1..n |-> s[a + i - 1] ]

\* squared distance, glm::distance2
distance2(p, q) == (p[1] - q[1]) * (p[1] - q[1]) + (p[2] - q[2]) * (p[2] - q[2])

(***************************************************************************)
(* Geometry kernel: OBB and AABB                                           *)
(***************************************************************************)
\* An OBB built from (centroid, axis, width, height).  The axis is one of
\* <<1,0>>, <<0,1>>, <<0,-1>>; aw and ah are the sizes of its extent.
OBB(c, axis, w, h) ==
    [ c |-> c, axis |-> axis, w |-> w, h |-> h,
      aw |-> IF axis[2] = 0 THEN w ELSE h,
      ah |-> IF axis[2] = 0 THEN h ELSE w ]

\* getExtent: the axis aligned bounding box, in doubled coordinates
getExtent(o) ==
    [ minx |-> 2 * o.c[1] - o.aw, maxx |-> 2 * o.c[1] + o.aw,
      miny |-> 2 * o.c[2] - o.ah, maxy |-> 2 * o.c[2] + o.ah ]

\* AABB from pixel corners, in doubled coordinates
AABB(x0, y0, x1, y1) == [ minx |-> 2 * x0, miny |-> 2 * y0, maxx |-> 2 * x1, maxy |-> 2 * y1 ]

\* AABB::intersect
aabbIntersect(a, b) ==
    /\ a.minx < b.maxx /\ b.minx < a.maxx
    /\ a.miny < b.maxy /\ b.miny < a.maxy

\* intersect(OBB, OBB): separating axis test; for axis aligned boxes the
\* axes are x and y and the projections are the extents
intersect(a, b) == aabbIntersect(getExtent(a), getExtent(b))

(***************************************************************************)
(* Labels.  scene.labels[l] is the label as constructed (type, options,    *)
(* dimension, parent, geometry); lab[l] is what the engine mutates.        *)
(***************************************************************************)
States == { "none", "fading_in", "visible", "sleep", "fading_out", "dead" }

NoLabel == 0

NoTile == [ source |-> 0, id |-> << 0, 0, 0 >> ]

Opt(l) == scene.labels[l]

\* Label::activation_distance_threshold
activation_distance_threshold == 2

\* Length of a fade, in units of dt
FadeSteps == 1

\* Time a label may sleep before it dies, in units of dt
SleepTTL == 2

\* Margin of the clip test of worldToScreenSpace, in pixels
ClipEps == 1

\* LabelProperty::anchorDirection
anchorDirection(a) ==
    CASE a = "center" -> << 0, 0 >>
      [] a = "top"    -> << 0, -1 >>
      [] a = "bottom" -> << 0, 1 >>
      [] a = "left"   -> << -1, 0 >>
      [] a = "right"  -> << 1, 0 >>

\* Label::visibleState
visibleState(st) == st.state \in { "fading_in", "visible", "sleep", "fading_out" }

\* Label::canOcclude
canOcclude(o) == o.type # "debug"

\* Label::occlude(bool)
occlude(st, b) == [ st EXCEPT !.occluded = b ]

\* Label::skipTransitions
Label_skipTransitions(st) == [ st EXCEPT !.state = "visible", !.alpha = FadeSteps ]

\* The anchor advanced up to the last one, without wrapping
nextAnchor_noWrap(o, st) ==
    LET index == Min(st.anchorIndex + 1, Len(o.anchors) - 1)
    IN  [ st |-> [ st EXCEPT !.anchorIndex = index ], changed |-> index # st.anchorIndex ]

\* Label::nextAnchor: advances and wraps; true when the anchor changed
nextAnchor(o, st) ==
    LET index == (st.anchorIndex + 1) % Len(o.anchors)
    IN  [ st |-> [ st EXCEPT !.anchorIndex = index ], changed |-> index # st.anchorIndex ]

\* The constructor without the assignment to m_options.repeatDistance
TextLabel_keepsDistance(o) == o

\* TextLabel::TextLabel
TextLabel(o) == [ o EXCEPT !.repeatDistance = 0 ]

\* The label a label set holds for the options `o`
Construct(o) == IF o.cls = "text" THEN TextLabel(o) ELSE o

\* TextLabel::applyAnchor: the offset m_anchor of anchor `a`
applyAnchor(o, parentDim, a) ==
    LET d == anchorDirection(a)
    IN  << (d[1] * (o.dim[1] + parentDim[1])) \div 2,
           (d[2] * (o.dim[2] + parentDim[2])) \div 2 >>

\* m_anchor of label l, as left by the last applyAnchor
m_anchor(l, st) ==
    LET o == Opt(l)
        pd == IF o.parent = NoLabel THEN << 0, 0 >> ELSE Opt(o.parent).dim
    IN  applyAnchor(o, pd, o.anchors[st.anchorIndex + 1])

\* worldToScreenSpace under the frame's mvp: a translation by the pan of the
\* view; clipped when the point leaves the clip volume
worldToScreenSpace(p, v) ==
    LET x == p[1] - v.pan
        y == p[2]
    IN  [ pos |-> << x, y >>,
          clipped |-> \/ x < -ClipEps \/ x > v.viewport[1] + ClipEps
                      \/ y < -ClipEps \/ y > v.viewport[2] + ClipEps ]

\* rotateBy(v, r), r a unit vector
rotateBy(p, r) == << p[1] * r[1] - p[2] * r[2], p[1] * r[2] + p[2] * r[1] >>

Sign(a) == IF a < 0 THEN -1 ELSE IF a > 0 THEN 1 ELSE 0

\* The line branch without the test of the length of the segment
lineTransform_anyLength(o, st, a0, a2, screenPosition) ==
    IF a0.clipped \/ a2.clipped
    THEN [ ok |-> FALSE, screenCenter |-> st.screenCenter, points |-> << >> ]
    ELSE [ ok |-> TRUE, screenCenter |-> screenPosition,
           points |-> << screenPosition, << 1, 0 >> >> ]

\* The line branch of TextLabel::updateScreenTransform, a0 and a2 the
\* projected end points and screenPosition the projected mid point
lineTransform(o, st, a0, a2, screenPosition) ==
    LET \* segments are parallel to an axis: glm::length is |dx| + |dy|
        length == Abs(a2.pos[1] - a0.pos[1]) + Abs(a2.pos[2] - a0.pos[2])
        d == IF a0.pos[1] <= a2.pos[1]
             THEN << a2.pos[1] - a0.pos[1], a2.pos[2] - a0.pos[2] >>
             ELSE << a0.pos[1] - a2.pos[1], a0.pos[2] - a2.pos[2] >>
        rotation == << Sign(d[1]), - Sign(d[2]) >>
    IN  IF a0.clipped \/ a2.clipped
        THEN [ ok |-> FALSE, screenCenter |-> st.screenCenter, points |-> << >> ]
        \* length < m_dim.x * 0.7
        ELSE IF 10 * length < 7 * o.dim[1]
        THEN [ ok |-> FALSE, screenCenter |-> st.screenCenter, points |-> << >> ]
        ELSE [ ok |-> TRUE, screenCenter |-> screenPosition,
               points |-> << << screenPosition[1] + rotateBy(o.offset, rotation)[1],
                                screenPosition[2] + rotateBy(o.offset, rotation)[2] >>,
                             rotation >> ]

\* The point branch of TextLabel::updateScreenTransform, s the projected
\* position
pointTransform(o, st, s) ==
    IF s.clipped
    THEN [ ok |-> FALSE, screenCenter |-> st.screenCenter, points |-> << >> ]
    ELSE [ ok |-> TRUE, screenCenter |-> s.pos,
           points |-> << << s.pos[1] + o.offset[1], s.pos[2] + o.offset[2] >>, << 1, 0 >> >> ]

\* TextLabel::updateScreenTransform.  Returns whether the label projects,
\* its new screenCenter and the points appended to the transform arena
\* (PointTransform::set: position, then rotation).
TextLabel_updateScreenTransform(o, st, v) ==
    IF o.type \in { "point", "debug" }
    THEN pointTransform(o, st, worldToScreenSpace(o.world[1], v))
    ELSE IF o.type = "line"
    THEN lineTransform(o, st, worldToScreenSpace(o.world[1], v),
                       worldToScreenSpace(o.world[2], v),
                       worldToScreenSpace(<< (o.world[2][1] + o.world[1][1]) \div 2,
                                             (o.world[2][2] + o.world[1][2]) \div 2 >>, v).pos)
    ELSE [ ok |-> FALSE, screenCenter |-> st.screenCenter, points |-> << >> ]

\* CurvedLabel::updateScreenTransform: the sampled points of the polyline
CurvedLabel_updateScreenTransform(o, st, v) ==
    LET s == worldToScreenSpace(o.world[1], v)
    IN  IF s.clipped
        THEN [ ok |-> FALSE, screenCenter |-> st.screenCenter, points |-> << >> ]
        ELSE [ ok |-> TRUE, screenCenter |-> s.pos,
               points |-> [ i \in 1..Len(o.samples) |->
                              << s.pos[1] + o.samples[i][1], s.pos[2] + o.samples[i][2] >> ] ]

\* Label::updateScreenTransform (virtual)
updateScreenTransform(o, st, v) ==
    IF o.cls = "curved"
    THEN CurvedLabel_updateScreenTransform(o, st, v)
    ELSE TextLabel_updateScreenTransform(o, st, v)

\* TextLabel::worldLineLength2
worldLineLength2(o) ==
    IF o.type # "line" THEN 0 ELSE distance2(o.world[1], o.world[2])

\* The OBB without the growth of a label occluded in the last frame
TextLabel_obbs_sameSize(o, st, points, anchor) ==
    << OBB(<< points[1][1] + anchor[1], points[1][2] + anchor[2] >>,
           << points[2][1], - points[2][2] >>,
           o.dim[1] - o.buffer[1], o.dim[2] - o.buffer[2]) >>

\* TextLabel::obbs: the one OBB of a point or line label.  `points` is the
\* label's slice of the transform arena, `anchor` its m_anchor.
TextLabel_obbs(o, st, points, anchor) ==
    LET d0 == << o.dim[1] - o.buffer[1], o.dim[2] - o.buffer[2] >>
        d1 == IF st.occludedLastFrame
              THEN << d0[1] + activation_distance_threshold,
                      d0[2] + activation_distance_threshold >>
              ELSE d0
        dim == IF st.state = "dead" THEN << d1[1] - 4, d1[2] - 4 >> ELSE d1
        position == points[1]
        rotation == points[2]
    IN  << OBB(<< position[1] + anchor[1], position[2] + anchor[2] >>,
               << rotation[1], - rotation[2] >>, dim[1], dim[2]) >>

\* CurvedLabel::obbs: one OBB per sampled point
CurvedLabel_obbs(o, st, points) ==
    [ i \in 1..Len(points) |-> OBB(points[i], << 1, 0 >>, o.dim[1], o.dim[2]) ]

\* Label::obbs (virtual): the OBBs of label l at its current anchor
obbsOf(l, st, points) ==
    IF Opt(l).cls = "curved"
    THEN CurvedLabel_obbs(Opt(l), st, points)
    ELSE TextLabel_obbs(Opt(l), st, points, m_anchor(l, st))

\* The end of Label::update: st1 the label after the occlusion flags were
\* shifted, t the outcome of updateScreenTransform
cullLabel(l, st1, t, bounds) ==
    IF ~ t.ok
    THEN [ ok |-> FALSE, st |-> [ st1 EXCEPT !.screenCenter = t.screenCenter ],
           points |-> << >>, projected |-> FALSE, pushed |-> Len(t.points) ]
    ELSE LET st2 == [ st1 EXCEPT !.screenCenter = t.screenCenter ]
             bs == obbsOf(l, st2, t.points)
         IN  IF \A i \in DOMAIN bs : ~ aabbIntersect(getExtent(bs[i]), bounds)
             THEN [ ok |-> FALSE, st |-> st2, points |-> << >>,
                    projected |-> TRUE, pushed |-> Len(t.points) ]
             ELSE [ ok |-> TRUE, st |-> st2, points |-> t.points,
                    projected |-> TRUE, pushed |-> Len(t.points) ]

\* The start of Label::update
shiftOcclusion(st) == [ st EXCEPT !.occludedLastFrame = st.occluded, !.occluded = FALSE ]

\* Label::update: remembers last frame's occlusion, projects the label and
\* culls it against `bounds`
Label_update(l, st, v, bounds) ==
    cullLabel(l, shiftOcclusion(st),
              updateScreenTransform(Opt(l), shiftOcclusion(st), v), bounds)

\* Label::evalState: one step of the label state machine.  `pocc` tells
\* whether the label has a parent that is occluded.
evalState(o, st, dt, pocc) ==
    CASE st.state = "none" ->
           IF ~ st.occluded
           THEN [ st |-> [ st EXCEPT !.state = "fading_in", !.alpha = 0 ], animate |-> TRUE ]
           ELSE IF o.required /\ pocc
           THEN [ st |-> [ st EXCEPT !.state = "dead" ], animate |-> FALSE ]
           ELSE [ st |-> st, animate |-> FALSE ]
      [] st.state = "fading_in" ->
           IF st.occluded
           THEN [ st |-> [ st EXCEPT !.state = "fading_out" ], animate |-> TRUE ]
           ELSE LET a == Min(st.alpha + dt, FadeSteps)
                IN  IF a >= FadeSteps
                    THEN [ st |-> [ st EXCEPT !.state = "visible", !.alpha = FadeSteps ],
                           animate |-> FALSE ]
                    ELSE [ st |-> [ st EXCEPT !.alpha = a ], animate |-> TRUE ]
      [] st.state = "visible" ->
           IF st.occluded /\ st.occludedLastFrame
           THEN [ st |-> [ st EXCEPT !.state = "sleep", !.alpha = 0, !.timer = 0 ],
                  animate |-> FALSE ]
           ELSE IF st.occluded
           THEN [ st |-> [ st EXCEPT !.state = "fading_out" ], animate |-> TRUE ]
           ELSE [ st |-> st, animate |-> FALSE ]
      [] st.state = "sleep" ->
           IF ~ st.occluded
           THEN [ st |-> [ st EXCEPT !.state = "fading_in", !.alpha = 0, !.timer = 0 ],
                  animate |-> TRUE ]
           ELSE LET t == Min(st.timer + dt, SleepTTL)
                IN  IF t >= SleepTTL
                    THEN [ st |-> [ st EXCEPT !.state = "dead", !.timer = 0 ], animate |-> FALSE ]
                    ELSE [ st |-> [ st EXCEPT !.timer = t ], animate |-> FALSE ]
      [] st.state = "fading_out" ->
           LET a == Max(st.alpha - dt, 0)
           IN  IF a <= 0
               THEN [ st |-> [ st EXCEPT !.state = "dead", !.alpha = 0 ], animate |-> FALSE ]
               ELSE [ st |-> [ st EXCEPT !.alpha = a ], animate |-> TRUE ]
      [] OTHER -> [ st |-> st, animate |-> FALSE ]

(***************************************************************************)
(* Tiles, styles and meshes                                                *)
(***************************************************************************)
\* A tile is [source, id, proxy] with id = <<z, x, y>>; a label names its
\* tile by [source, id], or NoTile when it belongs to a marker.
TileKey(t) == [ source |-> t.source, id |-> t.id ]

\* TileID::getParent
getParent(id) == << id[1] - 1, id[2] \div 2, id[3] \div 2 >>

\* TileID::getChild
getChild(id, i) == << id[1] + 1, 2 * id[2] + (i % 2), 2 * id[3] + (i \div 2) >>

\* dynamic_cast<const LabelSet*>: only text and point styles build label sets
IsLabelStyle(style) == style.kind \in { "text", "point" }

RECURSIVE SortedSeq(_)
\* the elements of a set of numbers in increasing order
SortedSeq(S) ==
    IF S = {} THEN << >>
    ELSE LET m == CHOOSE x \in S : \A y \in S : x <= y
         IN  << m >> \o SortedSeq(S \ { m })

\* tile->getMesh(style)->getLabels(): the labels of a tile under a style, in
\* the order of the label set; empty when the mesh is no label set
MeshLabels(key, style) ==
    IF ~ IsLabelStyle(style) THEN << >>
    ELSE SortedSeq({ l \in DOMAIN scene.labels :
                        /\ Opt(l).tile = key
                        /\ Opt(l).style = style.id })

\* marker->mesh()->getLabels()
MarkerLabels(m) ==
    SortedSeq({ l \in DOMAIN scene.labels : Opt(l).tile = NoTile /\ Opt(l).marker = m })

(***************************************************************************)
(* Labels::processLabelUpdate and Labels::updateLabels                     *)
(*                                                                         *)
(* The engine state threaded through the loops is a record S with the      *)
(* fields lab, m_labels, m_selectionLabels, m_transforms, m_needUpdate and *)
(* hist.                                                                   *)
(***************************************************************************)
LabelEntry(l, tile, proxy, range) ==
    [ label |-> l, tile |-> tile, proxy |-> proxy, priority |-> Opt(l).priority,
      transform |-> range, obbs |-> [ start |-> 0, length |-> 0 ] ]

\* The test of the parent left out
ParentOccluded_never(labs, l) == FALSE

ParentOccluded(labs, l) ==
    Opt(l).parent # NoLabel /\ labs[Opt(l).parent].occluded

\* m_needUpdate |= label->evalState(dt); label->addVerticesToMesh(...)
EvalAndDraw(S, l, dt) ==
    LET r == evalState(Opt(l), S.lab[l], dt, ParentOccluded(S.lab, l))
    IN  [ S EXCEPT !.lab[l] = r.st,
                   !.m_needUpdate = S.m_needUpdate \/ r.animate,
                   !.hist.evals = Append(S.hist.evals, l),
                   !.hist.verts = Append(S.hist.verts, l) ]

\* processLabelUpdate with onlyTransitions set, for a label that updated
transitionLabel(S, l, dt) ==
    IF visibleState(S.lab[l]) \/ ~ canOcclude(Opt(l)) THEN EvalAndDraw(S, l, dt) ELSE S

\* m_selectionLabels.emplace_back when the label has a selection colour
selectLabel(S, l, entry) ==
    IF Opt(l).selectionColor # 0
    THEN [ S EXCEPT !.m_selectionLabels = Append(S.m_selectionLabels, entry) ]
    ELSE S

\* What processLabelUpdate does with a label that updated; S holds the
\* updated label and its transform
routeLabel(S, l, entry, dt, onlyTransitions) ==
    IF onlyTransitions
    THEN transitionLabel(IF S.lab[l].occludedLastFrame
                         THEN [ S EXCEPT !.lab[l] = occlude(S.lab[l], TRUE) ]
                         ELSE S, l, dt)
    ELSE IF canOcclude(Opt(l))
    THEN [ S EXCEPT !.m_labels = Append(S.m_labels, entry) ]
    ELSE EvalAndDraw(S, l, dt)

\* The body of the loop of processLabelUpdate after label->update: r is
\* what the update returned
afterUpdate(S, l, tile, isProxy, v, onlyTransitions, r) ==
    IF ~ r.ok
    THEN [ S EXCEPT !.lab[l] = r.st, !.hist.updated = Append(S.hist.updated, l),
                    !.hist.projected = Append(S.hist.projected,
                                              << l, r.projected, r.pushed >>) ]
    ELSE selectLabel(
           routeLabel([ S EXCEPT !.lab[l] = r.st,
                                 !.m_transforms = S.m_transforms \o r.points,
                                 !.hist.updated = Append(S.hist.updated, l),
                                 !.hist.projected = Append(S.hist.projected,
                                                           << l, r.projected, r.pushed >>) ],
                      l,
                      LabelEntry(l, tile, isProxy,
                                 [ start |-> Len(S.m_transforms), length |-> Len(r.points) ]),
                      v.dt, onlyTransitions),
           l,
           LabelEntry(l, tile, isProxy,
                      [ start |-> Len(S.m_transforms), length |-> Len(r.points) ]))

\* The bounds a label is culled against
cullBounds(l, v, onlyTransitions) ==
    IF onlyTransitions \/ ~ canOcclude(Opt(l))
    THEN AABB(0, 0, v.viewport[1], v.viewport[2])
    ELSE AABB(-256, -256, v.viewport[1] + 256, v.viewport[2] + 256)

\* The loop body without the test of the dead state
processLabel_deadToo(S, l, tile, isProxy, v, onlyTransitions) ==
    afterUpdate(S, l, tile, isProxy, v, onlyTransitions,
                Label_update(l, S.lab[l], v, cullBounds(l, v, onlyTransitions)))

\* The body of the loop of processLabelUpdate for one label
processLabel(S, l, tile, isProxy, v, onlyTransitions) ==
    IF S.lab[l].state = "dead" /\ ~ v.drawAll THEN S
    ELSE afterUpdate(S, l, tile, isProxy, v, onlyTransitions,
                     Label_update(l, S.lab[l], v, cullBounds(l, v, onlyTransitions)))

RECURSIVE processLabelUpdate(_, _, _, _, _, _, _)
\* Labels::processLabelUpdate over the labels ls[i..] of one mesh
processLabelUpdate(S, ls, i, tile, isProxy, v, onlyTransitions) ==
    IF i > Len(ls) THEN S
    ELSE processLabelUpdate(processLabel(S, ls[i], tile, isProxy, v, onlyTransitions),
                            ls, i + 1, tile, isProxy, v, onlyTransitions)

\* The meshes updateLabels visits, in its order: every (tile, style), then
\* every (marker, style) with marker->styleId() == style->getID()
MeshOrder(v) ==
    LET nT == Len(v.tiles)
        nS == Len(scene.styles)
        nM == Len(scene.markers)
        tileMeshes == [ k \in 1..(nT * nS) |->
            LET t == v.tiles[((k - 1) \div nS) + 1]
                s == scene.styles[((k - 1) % nS) + 1]
            IN  [ labels |-> MeshLabels(TileKey(t), s), tile |-> TileKey(t), proxy |-> t.proxy ] ]
        markerMeshes == [ k \in 1..(nM * nS) |->
            LET m == ((k - 1) \div nS) + 1
                s == scene.styles[((k - 1) % nS) + 1]
            IN  [ labels |-> IF scene.markers[m].styleId = s.id THEN MarkerLabels(m) ELSE << >>,
                  tile |-> NoTile, proxy |-> FALSE ] ]
    IN  tileMeshes \o markerMeshes

RECURSIVE updateMeshes(_, _, _, _, _)
updateMeshes(S, meshes, k, v, onlyTransitions) ==
    IF k > Len(meshes) THEN S
    ELSE updateMeshes(processLabelUpdate(S, meshes[k].labels, 1, meshes[k].tile,
                                         meshes[k].proxy, v, onlyTransitions),
                      meshes, k + 1, v, onlyTransitions)

\* Labels::updateLabels
updateLabels(S, v, onlyTransitions) ==
    LET S0 == [ S EXCEPT !.m_labels = IF onlyTransitions THEN S.m_labels ELSE << >>,
                         !.m_selectionLabels = << >>,
                         !.m_needUpdate = FALSE ]
    IN  updateMeshes(S0, MeshOrder(v), 1, v, onlyTransitions)

(***************************************************************************)
(* Labels::getLabel                                                        *)
(***************************************************************************)
RECURSIVE getLabelFrom_anyState(_, _, _, _)
\* The scan without the test of visibleState
getLabelFrom_anyState(sel, labs, c, i) ==
    IF i > Len(sel) THEN [ label |-> NoLabel, tile |-> NoTile ]
    ELSE IF Opt(sel[i].label).selectionColor = c
    THEN [ label |-> sel[i].label, tile |-> sel[i].tile ]
    ELSE getLabelFrom_anyState(sel, labs, c, i + 1)

RECURSIVE getLabelFrom(_, _, _, _)
\* The loop of getLabel over m_selectionLabels from entry i
getLabelFrom(sel, labs, c, i) ==
    IF i > Len(sel) THEN [ label |-> NoLabel, tile |-> NoTile ]
    ELSE IF visibleState(labs[sel[i].label]) /\ Opt(sel[i].label).selectionColor = c
    THEN [ label |-> sel[i].label, tile |-> sel[i].tile ]
    ELSE getLabelFrom(sel, labs, c, i + 1)

\* Labels::getLabel
getLabel(c) == getLabelFrom(m_selectionLabels, lab, c, 1)

(***************************************************************************)
(* Labels::skipTransitions                                                 *)
(***************************************************************************)
\* findProxy: the tile of that id and source in the cache, else in the
\* live tile list
findProxy(key, v) ==
    IF key \in v.cache THEN key
    ELSE IF \E i \in DOMAIN v.tiles : TileKey(v.tiles[i]) = key THEN key
    ELSE NoTile

\* The test without the distance between the screen centers
SkipMatch_anyDistance(labs, l0, l1) ==
    /\ visibleState(labs[l1])
    /\ canOcclude(Opt(l1))
    /\ Opt(l0).repeatGroup = Opt(l1).repeatGroup

\* The test of skipTransitions(styles, tile, proxy) for one pair of labels
SkipMatch(labs, l0, l1) ==
    /\ visibleState(labs[l1])
    /\ canOcclude(Opt(l1))
    /\ Opt(l0).repeatGroup = Opt(l1).repeatGroup
    /\ LET d2 == distance2(labs[l0].screenCenter, labs[l1].screenCenter)
           m == Max(Opt(l0).dim[1], Opt(l0).dim[2])
       \* sqrt(d2) < std::max(dim.x, dim.y)
       IN  d2 < m * m

\* The labels of the tile that have a match, whatever their state
SkipCalls_anyState(labs, tile, proxy, style) ==
    { l0 \in Range(MeshLabels(tile, style)) :
        /\ canOcclude(Opt(l0))
        /\ \E l1 \in Range(MeshLabels(proxy, style)) : SkipMatch(labs, l0, l1) }

\* Labels::skipTransitions(styles, tile, proxy) for one style: the labels
\* of the tile on which Label::skipTransitions is called
SkipCalls(labs, tile, proxy, style) ==
    { l0 \in Range(MeshLabels(tile, style)) :
        /\ canOcclude(Opt(l0))
        /\ labs[l0].state = "none"
        /\ \E l1 \in Range(MeshLabels(proxy, style)) : SkipMatch(labs, l0, l1) }

\* The (tile, proxy, style) triples skipTransitions(styles, tiles, cache,
\* zoom) visits, in its order
SkipOrder(v, lastZoom) ==
    LET nT == Len(v.tiles)
        nS == Len(scene.styles)
        \* per tile: 4 proxy candidates (the parent when zooming in)
        cand(t, j) == IF lastZoom < v.zoom
                      THEN IF j = 0 THEN getParent(t.id) ELSE NoTile.id
                      ELSE getChild(t.id, j)
    IN  [ k \in 1..(nT * 4 * nS) |->
            LET t == v.tiles[((k - 1) \div (4 * nS)) + 1]
                j == ((k - 1) \div nS) % 4
                s == scene.styles[((k - 1) % nS) + 1]
                pk == [ source |-> t.source, id |-> cand(t, j) ]
            IN  [ tile |-> TileKey(t),
                  proxy |-> IF pk.id = NoTile.id THEN NoTile ELSE findProxy(pk, v),
                  style |-> s ] ]

RECURSIVE skipFold(_, _, _)
skipFold(S, order, k) ==
    IF k > Len(order) THEN S
    ELSE LET e == order[k]
             calls == IF e.proxy = NoTile \/ ~ IsLabelStyle(e.style) THEN {}
                      ELSE SkipCalls(S.lab, e.tile, e.proxy, e.style)
             S1 == [ S EXCEPT !.lab = [ l \in DOMAIN S.lab |->
                                          IF l \in calls THEN Label_skipTransitions(S.lab[l])
                                          ELSE S.lab[l] ],
                              !.hist.skipCalls = S.hist.skipCalls \cup calls ]
         IN  skipFold(S1, order, k + 1)

\* Labels::skipTransitions(styles, tiles, cache, currentZoom)
skipTransitions(S, v, lastZoom) == skipFold(S, SkipOrder(v, lastZoom), 1)

(***************************************************************************)
(* Labels::labelComparator and Labels::sortLabels                          *)
(***************************************************************************)
\* The addresses compared before the hashes
labelComparatorAt_addrFirst(ad, labs, a, b) ==
    IF a.proxy # b.proxy THEN b.proxy
    ELSE IF a.priority # b.priority THEN a.priority < b.priority
    ELSE IF a.tile = NoTile \/ b.tile = NoTile THEN a.tile # NoTile
    ELSE IF a.tile.id[1] # b.tile.id[1] THEN a.tile.id[1] > b.tile.id[1]
    ELSE LET l1 == a.label
             l2 == b.label
             o1 == Opt(l1)
             o2 == Opt(l2)
         IN  IF labs[l1].occludedLastFrame # labs[l2].occludedLastFrame
             THEN labs[l2].occludedLastFrame
             ELSE IF visibleState(labs[l1]) # visibleState(labs[l2])
             THEN visibleState(labs[l1])
             ELSE IF o1.type = "line" /\ o2.type = "line"
             THEN worldLineLength2(o1) > worldLineLength2(o2)
             ELSE IF ad[l1] # ad[l2] THEN ad[l1] < ad[l2]
             ELSE IF o1.hash # o2.hash THEN o1.hash < o2.hash
             ELSE IF o1.type = "curved" /\ o2.type = "curved"
             THEN o1.candidatePriority > o2.candidatePriority
             \* l1 < l2: the order of the two labels in memory
             ELSE ad[l1] < ad[l2]

\* The comparator with the address of each label as an input: ad[l] is the
\* place of label l in memory
labelComparatorAt(ad, labs, a, b) ==
    IF a.proxy # b.proxy THEN b.proxy
    ELSE IF a.priority # b.priority THEN a.priority < b.priority
    ELSE IF a.tile = NoTile \/ b.tile = NoTile THEN a.tile # NoTile
    ELSE IF a.tile.id[1] # b.tile.id[1] THEN a.tile.id[1] > b.tile.id[1]
    ELSE LET l1 == a.label
             l2 == b.label
             o1 == Opt(l1)
             o2 == Opt(l2)
         IN  IF labs[l1].occludedLastFrame # labs[l2].occludedLastFrame
             THEN labs[l2].occludedLastFrame
             ELSE IF visibleState(labs[l1]) # visibleState(labs[l2])
             THEN visibleState(labs[l1])
             ELSE IF o1.type = "line" /\ o2.type = "line"
             THEN worldLineLength2(o1) > worldLineLength2(o2)
             ELSE IF o1.hash # o2.hash THEN o1.hash < o2.hash
             ELSE IF o1.type = "curved" /\ o2.type = "curved"
             THEN o1.candidatePriority > o2.candidatePriority
             \* l1 < l2: the order of the two labels in memory
             ELSE ad[l1] < ad[l2]

\* The address of each label of the scene
Addr == [ l \in DOMAIN scene.labels |-> Opt(l).addr ]

labelComparator(labs, a, b) == labelComparatorAt(Addr, labs, a, b)

\* Whether a comparator is a strict weak order over a set of entries
IsStrictWeakOrder(E, lt(_, _)) ==
    LET eq(a, b) == ~ lt(a, b) /\ ~ lt(b, a)
    IN  /\ \A a \in E : ~ lt(a, a)
        /\ \A a, b \in E : lt(a, b) => ~ lt(b, a)
        /\ \A a, b, c \in E : lt(a, b) /\ lt(b, c) => lt(a, c)
        /\ \A a, b, c \in E : eq(a, b) /\ eq(b, c) => eq(a, c)

RECURSIVE InsertStable(_, _, _, _)
\* e inserted into the sorted sequence s before the first element it precedes
InsertStable(labs, s, e, i) ==
    IF i > Len(s) THEN Append(s, e)
    ELSE IF labelComparator(labs, e, s[i])
    THEN SubSeq(s, 1, i - 1) \o << e >> \o SubSeq(s, i, Len(s))
    ELSE InsertStable(labs, s, e, i + 1)

RECURSIVE StableSort(_, _, _, _)
StableSort(labs, s, acc, i) ==
    IF i > Len(s) THEN acc
    ELSE StableSort(labs, s, InsertStable(labs, acc, s[i], 1), i + 1)

Reorderings(s) ==
    { [ i \in DOMAIN s |-> s[p[i]] ] :
        p \in { q \in [ DOMAIN s -> DOMAIN s ] : \A i, j \in DOMAIN s : q[i] = q[j] => i = j } }

\* m_labels left in the order of collection
sortLabels_unsorted(labs, s) == { s }

\* m_labels sorted forwards or backwards, which may differ from call to call
sortLabels_eitherWay(labs, s) ==
    LET t == StableSort(labs, s, << >>, 1)
    IN  { t, [ i \in DOMAIN t |-> t[Len(t) + 1 - i] ] }

RECURSIVE InsertStableAt(_, _, _, _, _)
\* InsertStable for labels placed in memory as ad
InsertStableAt(ad, labs, s, e, i) ==
    IF i > Len(s) THEN Append(s, e)
    ELSE IF labelComparatorAt(ad, labs, e, s[i])
    THEN SubSeq(s, 1, i - 1) \o << e >> \o SubSeq(s, i, Len(s))
    ELSE InsertStableAt(ad, labs, s, e, i + 1)

RECURSIVE StableSortAt(_, _, _, _, _)
StableSortAt(ad, labs, s, acc, i) ==
    IF i > Len(s) THEN acc
    ELSE StableSortAt(ad, labs, s, InsertStableAt(ad, labs, acc, s[i], 1), i + 1)

\* Labels::sortLabels for labels placed in memory as ad
sortLabelsAt(ad, labs, s) ==
    LET lt(a, b) == labelComparatorAt(ad, labs, a, b)
    IN  IF IsStrictWeakOrder(Range(s), lt)
        THEN { StableSortAt(ad, labs, s, << >>, 1) }
        ELSE Reorderings(s)

\* Labels::sortLabels: std::stable_sort under labelComparator.  The result
\* is defined when the comparator is a strict weak order over the entries;
\* otherwise the sort leaves the entries in an order of its own.
sortLabels(labs, s) ==
    LET lt(a, b) == labelComparator(labs, a, b)
    IN  IF IsStrictWeakOrder(Range(s), lt)
        THEN { StableSort(labs, s, << >>, 1) }
        ELSE Reorderings(s)

(***************************************************************************)
(* Labels::handleOcclusions and Labels::withinRepeatDistance               *)
(***************************************************************************)
RECURSIVE lowerBound(_, _, _, _)
\* std::lower_bound(begin, end, obb, [](p, obb) { return obb > p.obbs.start; })
\* by bisection; `first` is a position of the sequence, counted from 1
lowerBound(s, obb, first, len) ==
    IF len <= 0 THEN first
    ELSE LET half == len \div 2
             mid == first + half
         IN  IF obb > s[mid].obbs.start
             THEN lowerBound(s, obb, mid + 1, len - half - 1)
             ELSE lowerBound(s, obb, first, half)

\* findLabel: the label to which the obb belongs
findLabel(s, obb) ==
    LET it == lowerBound(s, obb, 1, Len(s))
    IN  IF it <= Len(s) THEN s[it].label ELSE NoLabel

\* withinRepeatDistance with the threshold left unsquared
withinRepeatDistance_unsquared(labs, groups, l) ==
    \E k \in DOMAIN groups :
        /\ groups[k][1] = Opt(l).repeatGroup
        /\ distance2(labs[l].screenCenter, labs[groups[k][2]].screenCenter)
              < Opt(l).repeatDistance

\* Labels::withinRepeatDistance
withinRepeatDistance(labs, groups, l) ==
    LET threshold2 == Opt(l).repeatDistance * Opt(l).repeatDistance
    IN  \E k \in DOMAIN groups :
            /\ groups[k][1] = Opt(l).repeatGroup
            /\ distance2(labs[l].screenCenter, labs[groups[k][2]].screenCenter) < threshold2

\* The intersection callback over the grid: whether an OBB of `bs` meets an
\* OBB stored in the grid that findLabel does not give to the label's parent
Collides(l, bs, entries, arena, grid) ==
    \E i \in DOMAIN bs : \E item \in grid :
        /\ aabbIntersect(getExtent(bs[i]), item.aabb)
        /\ intersect(bs[i], arena[item.payload + 1])
        /\ ~ (Opt(l).parent # NoLabel /\ Opt(l).parent = findLabel(entries, item.payload))

RECURSIVE anchorLoop_retest(_, _, _, _, _, _, _, _, _)
\* The loop with the test for the first anchor made after the test against
\* the grid instead of before it
anchorLoop_retest(l, st, bs, points, anchorIndex, entries, arena, grid, tests) ==
    LET bs1 == IF st.occluded THEN obbsOf(l, st, points) ELSE bs
        hit == Collides(l, bs1, entries, arena, grid)
        st1 == occlude(st, hit)
        tests1 == Append(tests, << l, st.anchorIndex, hit >>)
        na == nextAnchor(Opt(l), st1)
    IN  IF ~ hit \/ (st.occluded /\ anchorIndex = st.anchorIndex)
        THEN [ st |-> st1, bs |-> bs1, tests |-> tests1 ]
        ELSE IF ~ na.changed
        THEN [ st |-> na.st, bs |-> bs1, tests |-> tests1 ]
        ELSE anchorLoop_retest(l, na.st, bs1, points, anchorIndex, entries, arena, grid, tests1)

RECURSIVE anchorLoop(_, _, _, _, _, _, _, _, _)
\* The do-while loop over the anchors of label l.  st is the label, bs its
\* OBBs in the arena, tests the anchors tested so far.
anchorLoop(l, st, bs, points, anchorIndex, entries, arena, grid, tests) ==
    LET bs1 == IF st.occluded THEN obbsOf(l, st, points) ELSE bs
    IN  IF st.occluded /\ anchorIndex = st.anchorIndex
        THEN [ st |-> st, bs |-> bs1, tests |-> tests ]
        ELSE LET hit == Collides(l, bs1, entries, arena, grid)
                 st1 == occlude(st, hit)
                 tests1 == Append(tests, << l, st.anchorIndex, hit >>)
                 na == nextAnchor(Opt(l), st1)
             IN  IF ~ hit
                 THEN [ st |-> st1, bs |-> bs1, tests |-> tests1 ]
                 ELSE IF ~ na.changed
                 THEN [ st |-> na.st, bs |-> bs1, tests |-> tests1 ]
                 ELSE anchorLoop(l, na.st, bs1, points, anchorIndex, entries, arena, grid, tests1)

\* A label that ends occluded leaves its parent as it is
propagateRequired_none(S, l) == S

\* The parent occluded and withdrawn from the grid and the repeat groups
propagateRequired_withdraw(S, l) ==
    IF Opt(l).parent # NoLabel /\ Opt(l).required
    THEN [ S EXCEPT !.lab[Opt(l).parent] = occlude(S.lab[Opt(l).parent], TRUE),
                    !.m_isect2d.items =
                        { it \in S.m_isect2d.items :
                            \A j \in DOMAIN S.m_labels :
                                S.m_labels[j].label = Opt(l).parent =>
                                    \/ it.payload < S.m_labels[j].obbs.start
                                    \/ it.payload >= S.m_labels[j].obbs.start
                                                         + S.m_labels[j].obbs.length },
                    !.m_repeatGroups =
                        SelectSeq(S.m_repeatGroups, LAMBDA g : g[2] # Opt(l).parent) ]
    ELSE S

\* if (l->parent() && l->options().required) { l->parent()->occlude(); }
propagateRequired(S, l) ==
    IF Opt(l).parent # NoLabel /\ Opt(l).required
    THEN [ S EXCEPT !.lab[Opt(l).parent] = occlude(S.lab[Opt(l).parent], TRUE) ]
    ELSE S

\* Every OBB inserted with the start of the range as its payload
insertOBBs_onePayload(items, bs, obbPos) ==
    items \cup { [ aabb |-> getExtent(bs[k]), payload |-> obbPos ] : k \in DOMAIN bs }

\* "Insert into ISect2D grid": the extent of each OBB with its index in the
\* arena as m_userData, obbPos the start of the range
insertOBBs(items, bs, obbPos) ==
    items \cup { [ aabb |-> getExtent(bs[k]), payload |-> obbPos + k - 1 ] : k \in DOMAIN bs }

\* The body of the loop of handleOcclusions for entry i of m_labels
handleEntry(S, i) ==
    LET entry == S.m_labels[i]
        l == entry.label
        o == Opt(l)
    IN  IF ParentOccluded(S.lab, l)
        THEN [ S EXCEPT !.lab[l] = occlude(S.lab[l], TRUE) ]
        ELSE
        LET points == SubSeqFrom(S.m_transforms, entry.transform.start + 1, entry.transform.length)
            start == Len(S.m_obbs)
            bs0 == obbsOf(l, S.lab[l], points)
            entries == [ S.m_labels EXCEPT ![i].obbs = [ start |-> start, length |-> Len(bs0) ] ]
            st0 == IF o.repeatDistance > 0 /\ withinRepeatDistance(S.lab, S.m_repeatGroups, l)
                   THEN occlude(S.lab[l], TRUE)
                   ELSE S.lab[l]
            r == anchorLoop(l, st0, bs0, points, S.lab[l].anchorIndex, entries, S.m_obbs,
                            S.m_isect2d.items, S.hist.tests)
            S1 == [ S EXCEPT !.lab[l] = r.st,
                             !.m_labels = [ entries EXCEPT ![i].obbs.length = Len(r.bs) ],
                             !.m_obbs = S.m_obbs \o r.bs,
                             !.hist.tests = r.tests ]
        IN  IF r.st.occluded
            THEN propagateRequired(S1, l)
            ELSE [ S1 EXCEPT
                     !.m_isect2d.items = insertOBBs(S.m_isect2d.items, r.bs, start),
                     !.m_repeatGroups = IF o.repeatDistance > 0
                                        THEN Append(S.m_repeatGroups, << o.repeatGroup, l >>)
                                        ELSE S.m_repeatGroups ]

(***************************************************************************)
(* Labels::updateLabelSet                                                  *)
(***************************************************************************)
\* The loop body without the test of the OBBs against the screen
finalizeEntry_anywhere(S, i, v) ==
    LET l == S.m_labels[i].label
        r == evalState(Opt(l), S.lab[l], v.dt, ParentOccluded(S.lab, l))
    IN  [ S EXCEPT !.lab[l] = r.st,
                   !.m_needUpdate = S.m_needUpdate \/ r.animate,
                   !.hist.evals = Append(S.hist.evals, l),
                   !.hist.verts = IF visibleState(r.st)
                                  THEN Append(S.hist.verts, l)
                                  ELSE S.hist.verts ]

\* The loop "Update label meshes" of updateLabelSet for entry i
finalizeEntry(S, i, v) ==
    LET entry == S.m_labels[i]
        l == entry.label
        screenBounds == AABB(0, 0, v.viewport[1], v.viewport[2])
        r == evalState(Opt(l), S.lab[l], v.dt, ParentOccluded(S.lab, l))
        onScreen == \E k \in 1..entry.obbs.length :
                        aabbIntersect(getExtent(S.m_obbs[entry.obbs.start + k]), screenBounds)
    IN  [ S EXCEPT !.lab[l] = r.st,
                   !.m_needUpdate = S.m_needUpdate \/ r.animate,
                   !.hist.evals = Append(S.hist.evals, l),
                   !.hist.verts = IF visibleState(r.st) /\ onScreen
                                  THEN Append(S.hist.verts, l)
                                  ELSE S.hist.verts ]

RECURSIVE finalizeFrom(_, _, _)
finalizeFrom(S, i, v) ==
    IF i > Len(S.m_labels) THEN S
    ELSE finalizeFrom(finalizeEntry(S, i, v), i + 1, v)

\* int(zoom) of a zoom kept in tenths
IntZoom(z) == z \div 10

\* The cell counts passed to m_isect2d.resize
gridSplit(v) == << v.viewport[1] \div 256, v.viewport[2] \div 256 >>

EmptyHist ==
    [ updated |-> << >>, evals |-> << >>, verts |-> << >>, skipCalls |-> {},
      skipRan |-> FALSE, tests |-> << >>, lab0 |-> << >>, labSkip |-> << >>,
      labPass |-> << >>, labStep |-> << >>, picked |-> << >>,
      zooms |-> << >>, skips |-> << >>, inputs |-> << >>, projected |-> << >>,
      labBefore |-> << >>, gridStep |-> {}, groupsStep |-> << >> ]

\* The engine state as a record, and back
Engine ==
    [ lab |-> lab, m_labels |-> m_labels, m_selectionLabels |-> m_selectionLabels,
      m_transforms |-> m_transforms, m_obbs |-> m_obbs, m_isect2d |-> m_isect2d,
      m_repeatGroups |-> m_repeatGroups, m_needUpdate |-> m_needUpdate, hist |-> hist ]

Becomes(S) ==
    /\ lab' = S.lab
    /\ m_labels' = S.m_labels
    /\ m_selectionLabels' = S.m_selectionLabels
    /\ m_transforms' = S.m_transforms
    /\ m_obbs' = S.m_obbs
    /\ m_isect2d' = S.m_isect2d
    /\ m_repeatGroups' = S.m_repeatGroups
    /\ m_needUpdate' = S.m_needUpdate
    /\ hist' = S.hist

\* updateLabelSet is called with a view, dt, tiles and a tile cache: the
\* arenas are cleared and the labels collected (updateLabels)
Collect ==
    /\ pc = "idle"
    /\ view.frame < env.frames
    /\ \E inp \in env.inputs :
        LET v == [ viewport |-> inp.viewport, zoom |-> inp.zoom, pan |-> inp.pan,
                   dt |-> inp.dt, tiles |-> inp.tiles, cache |-> inp.cache,
                   drawAll |-> inp.drawAll, prevZoom |-> view.zoom,
                   frame |-> view.frame + 1 ]
            S0 == [ Engine EXCEPT !.m_transforms = << >>, !.m_obbs = << >>,
                                  !.hist = [ EmptyHist EXCEPT
                                               !.lab0 = lab,
                                               !.labBefore = hist.lab0,
                                               !.zooms = Append(hist.zooms, inp.zoom),
                                               !.skips = hist.skips,
                                               !.inputs = Append(hist.inputs, inp) ] ]
        IN  /\ view' = v
            /\ Becomes(updateLabels(S0, v, FALSE))
    /\ pc' = "collected"
    /\ UNCHANGED << scene, env, m_lastZoom, cur >>

\* sortLabels()
Sort ==
    /\ pc = "collected"
    /\ \E s \in sortLabels(lab, m_labels) : m_labels' = s
    /\ pc' = "sorted"
    /\ UNCHANGED << scene, env, view, lab, m_selectionLabels, m_transforms, m_obbs, m_isect2d,
                    m_repeatGroups, m_lastZoom, m_needUpdate, cur, hist >>

\* The zooms compared as they are
zoomChanged_exact(lastZoom, v) == lastZoom # v.zoom

\* Whether updateLabelSet runs the transition skipping step
zoomChanged(lastZoom, v) == IntZoom(lastZoom) # IntZoom(v.zoom)

\* "Mark labels to skip transitions", m_isect2d.resize and the first
\* statements of handleOcclusions
SkipAndReset ==
    /\ pc = "sorted"
    /\ LET S0 == [ Engine EXCEPT !.hist.labSkip = lab ]
           S1 == IF zoomChanged(m_lastZoom, view)
                 THEN [ skipTransitions(S0, view, m_lastZoom) EXCEPT !.hist.skipRan = TRUE ]
                 ELSE S0
           S2 == [ S1 EXCEPT !.m_isect2d = [ split |-> gridSplit(view), items |-> {} ],
                             !.m_repeatGroups = << >>,
                             !.hist.skips = Append(S1.hist.skips, S1.hist.skipRan),
                             !.hist.labPass = S1.lab ]
       IN  Becomes(S2)
    /\ m_lastZoom' = IF zoomChanged(m_lastZoom, view) THEN view.zoom ELSE m_lastZoom
    /\ pc' = "occlusion"
    /\ cur' = 1
    /\ UNCHANGED << scene, env, view >>

\* One iteration of the loop of handleOcclusions
HandleOcclusions ==
    /\ pc = "occlusion"
    /\ cur <= Len(m_labels)
    /\ Becomes([ handleEntry(Engine, cur) EXCEPT !.hist.labStep = lab,
                                                 !.hist.gridStep = m_isect2d.items,
                                                 !.hist.groupsStep = m_repeatGroups ])
    /\ cur' = cur + 1
    /\ UNCHANGED << scene, env, view, m_lastZoom, pc >>

\* The loop "Update label meshes" and the return of updateLabelSet
Finalize ==
    /\ pc = "occlusion"
    /\ cur > Len(m_labels)
    /\ Becomes(finalizeFrom(Engine, 1, view))
    /\ pc' = "idle"
    /\ UNCHANGED << scene, env, view, m_lastZoom, cur >>

\* getLabel(c) is called between two frames
GetLabel ==
    /\ pc = "idle"
    /\ \E c \in env.colors :
         hist' = [ hist EXCEPT !.picked = << [ color |-> c, result |-> getLabel(c) ] >> ]
    /\ UNCHANGED << scene, env, view, lab, m_labels, m_selectionLabels, m_transforms, m_obbs,
                    m_isect2d, m_repeatGroups, m_lastZoom, m_needUpdate, pc, cur >>

Next == Collect \/ Sort \/ SkipAndReset \/ HandleOcclusions \/ Finalize \/ GetLabel

(***************************************************************************)
(* Construction                                                            *)
(***************************************************************************)
\* Tiles of the model: one source, three zoom levels
TileA == [ source |-> 1, id |-> << 1, 0, 0 >> ]

TileB == [ source |-> 1, id |-> << 2, 0, 0 >> ]

TileC == [ source |-> 1, id |-> << 3, 0, 0 >> ]

Live(key, proxy) == [ source |-> key.source, id |-> key.id, proxy |-> proxy ]

Styles == << [ id |-> 1, kind |-> "text" ], [ id |-> 2, kind |-> "point" ],
             [ id |-> 3, kind |-> "polygon" ] >>

\* Options of a point label of a text style on tile B; the families below
\* override fields of it
DefaultOptions ==
    [ cls |-> "text", type |-> "point", priority |-> 1, hash |-> 10, addr |-> 1,
      parent |-> NoLabel, required |-> FALSE, repeatGroup |-> 0, repeatDistance |-> 0,
      anchors |-> << "center" >>, world |-> << << 400, 300 >> >>, samples |-> << >>,
      dim |-> << 100, 30 >>, buffer |-> << 0, 0 >>, offset |-> << 0, 0 >>,
      selectionColor |-> 0, tile |-> TileB, marker |-> 0, style |-> 1,
      candidatePriority |-> 0 ]

\* Label::Label: a label starts in state none, at its first anchor
FreshLabel ==
    [ state |-> "none", alpha |-> 0, timer |-> 0, occluded |-> FALSE,
      occludedLastFrame |-> FALSE, anchorIndex |-> 0, screenCenter |-> << 0, 0 >> ]

\* The arguments of one call of updateLabelSet: tile B at zoom 1.5
DefaultInput ==
    [ zoom |-> 15, tiles |-> << Live(TileB, FALSE) >>, cache |-> {}, pan |-> 0, dt |-> 1,
      viewport |-> << 800, 600 >>, drawAll |-> FALSE ]

\* The calls the environment makes: the arguments of a frame, the colours
\* it picks with getLabel, and the number of frames
DefaultEnv ==
    [ inputs |-> { DefaultInput }, colors |-> { 0, 1 }, frames |-> MaxFrames ]

\* Labels::Labels, over a scene of constructed labels
InitEngine(sc, e) ==
    /\ scene = sc
    /\ env = e
    /\ view = [ viewport |-> << 0, 0 >>, zoom |-> 0, pan |-> 0, dt |-> 0, tiles |-> << >>,
                cache |-> {}, drawAll |-> FALSE, prevZoom |-> 0, frame |-> 0 ]
    /\ lab = [ l \in DOMAIN sc.labels |-> FreshLabel ]
    /\ m_labels = << >>
    /\ m_selectionLabels = << >>
    /\ m_transforms = << >>
    /\ m_obbs = << >>
    /\ m_isect2d = [ split |-> << 0, 0 >>, items |-> {} ]
    /\ m_repeatGroups = << >>
    /\ m_lastZoom = 0
    /\ m_needUpdate = FALSE
    /\ pc = "idle"
    /\ cur = 1
    /\ hist = EmptyHist

(***************************************************************************)
(* Inputs.  A scene is a sequence of three labels; the families draw the   *)
(* fields the operations read from small sets.                             *)
(***************************************************************************)
\* The geometry of a kind of label centred at position p
KindFields(kind, p) ==
    CASE kind = "point" ->
           [ cls |-> "text", type |-> "point", world |-> << p >>, samples |-> << >> ]
      [] kind = "sprite" ->
           [ cls |-> "sprite", type |-> "point", world |-> << p >>, samples |-> << >> ]
      [] kind = "debug" ->
           [ cls |-> "text", type |-> "debug", world |-> << p >>, samples |-> << >> ]
      [] kind = "lineLong" ->
           [ cls |-> "text", type |-> "line",
             world |-> << << p[1] - 60, p[2] >>, << p[1] + 60, p[2] >> >>, samples |-> << >> ]
      [] kind = "lineShort" ->
           [ cls |-> "text", type |-> "line",
             world |-> << << p[1] + 40, p[2] >>, << p[1] - 40, p[2] >> >>, samples |-> << >> ]
      [] kind = "lineTiny" ->
           [ cls |-> "text", type |-> "line",
             world |-> << << p[1] - 25, p[2] >>, << p[1] + 25, p[2] >> >>, samples |-> << >> ]
      [] kind = "lineEdge" ->
           [ cls |-> "text", type |-> "line",
             world |-> << << p[1] - 35, p[2] >>, << p[1] + 35, p[2] >> >>, samples |-> << >> ]
      [] kind = "curved" ->
           [ cls |-> "curved", type |-> "curved", world |-> << p >>,
             samples |-> << << 0, 0 >>, << 100, 0 >> >> ]

\* The options a style builder passes to the constructor of a label
Options(kind, p, f) ==
    LET g == KindFields(kind, p)
    IN  [ DefaultOptions EXCEPT
            !.cls = g.cls, !.type = g.type, !.world = g.world, !.samples = g.samples,
            !.priority = f.priority, !.hash = f.hash, !.addr = f.addr, !.parent = f.parent,
            !.required = f.required, !.repeatGroup = f.repeatGroup,
            !.repeatDistance = f.repeatDistance, !.anchors = f.anchors,
            !.selectionColor = f.selectionColor, !.buffer = f.buffer,
            !.offset = f.offset,
            !.tile = f.tile, !.marker = IF f.tile = NoTile THEN 1 ELSE 0,
            !.style = IF g.cls = "sprite" THEN 2 ELSE 1,
            !.candidatePriority = f.candidatePriority ]

DefaultFields ==
    [ priority |-> 1, hash |-> 10, addr |-> 1, parent |-> NoLabel, required |-> FALSE,
      repeatGroup |-> 0, repeatDistance |-> 0, anchors |-> << "center" >>,
      selectionColor |-> 0, tile |-> TileB, candidatePriority |-> 0, buffer |-> << 0, 0 >>,
      offset |-> << 0, 0 >> ]

Scene(labels) ==
    [ labels |-> [ i \in DOMAIN labels |-> Construct(labels[i]) ],
      options |-> labels,
      markers |-> << [ styleId |-> 1 ] >>,
      styles |-> Styles ]

Triples(S) == [ 1..3 -> S ]

OneAnchor == << "center" >>

ThreeAnchors == << "center", "top", "bottom" >>

\* Parent of each of the three labels
ParentMaps == { << 0, 0, 0 >>, << 0, 1, 0 >>, << 0, 1, 1 >>, << 2, 0, 0 >>, << 0, 0, 2 >> }

\* Family 1: point labels of one tile; positions, priorities, parents, the
\* required flag and the anchors vary
HierarchyScenes ==
    { Scene([ i \in 1..3 |->
                Options("point", pos[i],
                        [ DefaultFields EXCEPT !.priority = prio[i], !.hash = 10 * i, !.addr = i,
                                               !.parent = pm[i], !.required = (pm[i] # 0 /\ req),
                                               !.anchors = an,
                                               !.selectionColor = IF i = 3 THEN 0 ELSE 1 ]) ]) :
        pos \in Triples({ << 400, 300 >>, << 420, 315 >>, << 560, 300 >> }),
        prio \in Triples({ 1, 2 }),
        pm \in ParentMaps,
        req \in BOOLEAN,
        an \in { OneAnchor, ThreeAnchors } }

\* Family 2: point, line and curved labels of one tile with equal
\* priority; the kinds and the hashes vary
TypeScenes ==
    { Scene([ i \in 1..3 |->
                Options(kind[i], pos[i],
                        [ DefaultFields EXCEPT !.hash = hash[i], !.addr = i, !.parent = pm[i],
                                               !.candidatePriority = i % 2,
                                               !.selectionColor = i ]) ]) :
        kind \in Triples({ "point", "lineLong", "lineShort", "curved" }),
        pos \in { << << 200, 300 >>, << 300, 340 >>, << 300, 310 >> >>,
                  << << 300, 310 >>, << 200, 300 >>, << 300, 340 >> >> },
        hash \in Triples({ 10, 20, 30 }),
        pm \in { << 0, 0, 0 >>, << 0, 0, 2 >> } }

\* Family 3: overlapping point labels of a tile or of a marker that tie up
\* to the hash; the third label is a point, a debug label or off screen
TieScenes ==
    { Scene([ i \in 1..3 |->
                Options(IF i = 3 THEN third[1] ELSE "point",
                        IF i = 3 THEN third[2] ELSE << 400 + 20 * (i - 1), 300 >>,
                        [ DefaultFields EXCEPT !.hash = hash[i], !.addr = addr[i],
                                               !.tile = owner[i],
                                               !.selectionColor = color[i] ]) ]) :
        hash \in Triples({ 10, 20 }),
        addr \in { << 1, 2, 3 >>, << 2, 1, 3 >> },
        owner \in Triples({ TileB, NoTile }),
        color \in { << 1, 1, 2 >>, << 0, 1, 1 >> },
        third \in { << "point", << 440, 300 >> >>, << "debug", << 440, 300 >> >>,
                    << "point", << 2000, 300 >> >> } }

\* Family 4: sprites and a text label spread along a column, with repeat
\* groups and repeat distances
RepeatScenes ==
    { Scene([ i \in 1..3 |->
                Options(IF i = 3 THEN third ELSE "sprite", pos[i],
                        [ DefaultFields EXCEPT !.hash = 10 * i, !.addr = i,
                                               !.priority = prio[i],
                                               !.repeatGroup = group[i],
                                               !.repeatDistance = rd[i] ]) ]) :
        pos \in { << 400, 300 >> } \X { << 400, 340 >>, << 420, 300 >> }
                   \X { << 400, 380 >>, << 400, 420 >> },
        prio \in { << 1, 1, 1 >>, << 2, 1, 1 >>, << 1, 2, 1 >> },
        group \in { << 7, 7, 7 >>, << 7, 7, 8 >>, << 7, 8, 7 >> },
        rd \in Triples({ 0, 50, 100 }),
        third \in { "sprite", "point" } }

InitRepeat == \E sc \in RepeatScenes : InitEngine(sc, DefaultEnv)

SpecRepeat == InitRepeat /\ [][Next]_vars

\* Family 5: labels of the tiles of three zoom levels, close to each other
\* or apart, in one repeat group or in two
ZoomScenes ==
    { Scene(<< Options("point", << 400, 300 >>,
                       [ DefaultFields EXCEPT !.hash = 10, !.addr = 1, !.repeatGroup = 7,
                                              !.tile = tile1 ]),
               Options(kind2, pos2,
                       [ DefaultFields EXCEPT !.hash = 20, !.addr = 2, !.priority = 2,
                                              !.repeatGroup = group2 ]),
               Options("point", pos3,
                       [ DefaultFields EXCEPT !.hash = 30, !.addr = 3, !.priority = 2,
                                              !.repeatGroup = 7, !.tile = tile3,
                                              !.parent = rel3[1], !.required = rel3[2] ]) >>) :
        tile1 \in { TileA, TileC },
        kind2 \in { "point", "debug" },
        pos2 \in { << 410, 300 >>, << 410, 340 >> },
        group2 \in { 7, 8 },
        tile3 \in { TileA, TileB, TileC },
        pos3 \in { << 420, 300 >>, << 600, 300 >> },
        rel3 \in { << NoLabel, FALSE >>, << 2, FALSE >>, << 2, TRUE >> } }

\* Frames at the zoom levels 1.1, 1.9, 2.0 and 2.9 with the tiles shown and
\* cached at them
ZoomInputs ==
    { [ DefaultInput EXCEPT !.zoom = 11, !.tiles = << Live(TileA, FALSE) >> ],
      [ DefaultInput EXCEPT !.zoom = 19, !.tiles = << Live(TileA, FALSE) >>,
                            !.cache = { TileB } ],
      [ DefaultInput EXCEPT !.zoom = 20, !.tiles = << Live(TileB, FALSE), Live(TileC, FALSE) >>,
                            !.cache = { TileA } ],
      [ DefaultInput EXCEPT !.zoom = 20, !.tiles = << Live(TileB, FALSE), Live(TileA, FALSE) >> ],
      [ DefaultInput EXCEPT !.zoom = 29, !.tiles = << Live(TileC, FALSE) >> ],
      [ DefaultInput EXCEPT !.zoom = 11, !.tiles = << Live(TileB, FALSE), Live(TileA, TRUE) >>,
                            !.cache = { TileC } ] }

InitZoom == \E sc \in ZoomScenes : InitEngine(sc, [ DefaultEnv EXCEPT !.inputs = ZoomInputs ])

SpecZoom == InitZoom /\ [][Next]_vars

\* Family 6: two or three overlapping labels, for the claims about
\* sequences of frames
FrameScenes ==
    { Scene([ i \in 1..3 |->
                Options(IF i = 3 THEN third ELSE "point", << 400 + 20 * (i - 1), 300 >>,
                        [ DefaultFields EXCEPT !.hash = hash[i], !.addr = i,
                                               !.selectionColor = i % 2 ]) ]) :
        hash \in { << 10, 20, 30 >>, << 20, 10, 30 >> },
        third \in { "point", "debug" } }

\* Frames at the zooms 14.1, 14.9 and 15.0
FrameInputs == { [ DefaultInput EXCEPT !.zoom = z ] : z \in { 141, 149, 150 } }

InitFrames == \E sc \in FrameScenes :
                 InitEngine(sc, [ DefaultEnv EXCEPT !.inputs = FrameInputs,
                                                    !.frames = MaxFrames + 1 ])

SpecFrames == InitFrames /\ [][Next]_vars

\* Family 7: a label Q, a label P that is free, collides with Q, is offset
\* to outside the viewport or is clipped, and a label that may be a child
\* of P; the kinds, the buffers, the anchors and the owner of Q vary
FlagScenes ==
    { Scene(<< Options("point", << 400, 300 >>,
                       [ DefaultFields EXCEPT !.hash = 10, !.addr = 1, !.tile = var[4],
                                              !.buffer = var[3], !.selectionColor = 1 ]),
               Options(kind2, pos2[1],
                       [ DefaultFields EXCEPT !.hash = 20, !.addr = 2, !.priority = 2,
                                              !.offset = pos2[2],
                                              !.buffer = var[3], !.anchors = var[2],
                                              !.selectionColor = 2 ]),
               Options(kind3, var[1],
                       [ DefaultFields EXCEPT !.hash = 30, !.addr = 3, !.priority = 3,
                                              !.buffer = var[3], !.anchors = var[2],
                                              !.repeatGroup = 7,
                                              !.repeatDistance = IF kind3 = "sprite" THEN 50 ELSE 0,
                                              !.parent = rel3[1], !.required = rel3[2] ]) >>) :
        kind2 \in { "point", "debug" },
        pos2 \in { << << 560, 300 >>, << 0, 0 >> >>, << << 420, 310 >>, << 0, 0 >> >>,
                   << << 780, 300 >>, << 80, 0 >> >>, << << 900, 300 >>, << 0, 0 >> >> },
        kind3 \in { "point", "sprite", "lineEdge", "lineTiny" },
        rel3 \in { << NoLabel, FALSE >>, << 2, FALSE >>, << 2, TRUE >> },
        var \in { << << 400, 310 >>, OneAnchor, << 0, 0 >>, TileB >>,
                  << << 400, 310 >>, ThreeAnchors, << 4, 2 >>, TileB >>,
                  << << 560, 340 >>, OneAnchor, << 4, 2 >>, NoTile >> } }

\* Frames with and without the draw_all_labels flag, with dt = 0 and with
\* the view panned by 300 pixels
FlagInputs ==
    { DefaultInput,
      [ DefaultInput EXCEPT !.dt = 0 ],
      [ DefaultInput EXCEPT !.drawAll = TRUE ],
      [ DefaultInput EXCEPT !.pan = 300, !.dt = 0 ] }

\* Where the labels of a crowd are
CrowdAt ==
    << << 100, 300 >>, << 400, 300 >>, << 400, 310 >>,
       << 650, 100 >>, << 650, 300 >>, << 650, 500 >> >>

\* Family 8: four or six point labels of one tile with priorities in the
\* order of construction; the third is a child of the second and lies over
\* it, the others lie apart
CrowdScenes ==
    { Scene([ i \in 1..n |->
                Options("point", CrowdAt[i],
                        [ DefaultFields EXCEPT !.priority = i, !.hash = 10 * i, !.addr = i,
                                               !.parent = IF i = 3 THEN 2 ELSE NoLabel,
                                               !.required = (i = 3 /\ req) ]) ]) :
        n \in { 4, 6 }, req \in BOOLEAN }

InitFlags == \E sc \in FlagScenes \cup CrowdScenes :
                InitEngine(sc, [ DefaultEnv EXCEPT !.inputs = FlagInputs,
                                                   !.frames = MaxFrames + 1 ])

SpecFlags == InitFlags /\ [][Next]_vars

TwoAnchors == << "top", "bottom" >>

\* Family 9: labels at the right edge of the viewport.  A has priority 1.
\* X is clipped until the view is panned, lies under or over A or is far
\* away; it has priority 1, or priority 3 as a required child of B.  B has
\* priority 2 and one, two or three anchors, lies over A and may be a
\* required child of it.  A and B are text labels, or sprites of one repeat
\* group with a repeat distance
AnchorScenes ==
    { Scene(<< Options(kindAB, << 790, 300 >>,
                       [ DefaultFields EXCEPT !.hash = 10, !.addr = 1, !.repeatGroup = 7,
                                              !.repeatDistance = 100 ]),
               Options("point", posX,
                       [ DefaultFields EXCEPT !.hash = 20, !.addr = 2, !.priority = relX[3],
                                              !.parent = relX[1], !.required = relX[2] ]),
               Options(kindAB, posB,
                       [ DefaultFields EXCEPT !.hash = 30, !.addr = 3, !.priority = 2,
                                              !.anchors = anch, !.repeatGroup = 7,
                                              !.repeatDistance = 100,
                                              !.parent = rel[1], !.required = rel[2] ]) >>) :
        kindAB \in { "point", "sprite" },
        posX \in { << 850, 350 >>, << 790, 350 >>, << 790, 310 >>, << 1200, 350 >> },
        relX \in { << NoLabel, FALSE, 1 >>, << 3, TRUE, 3 >> },
        posB \in { << 790, 320 >>, << 790, 310 >> },
        anch \in { OneAnchor, TwoAnchors, ThreeAnchors },
        rel \in { << NoLabel, FALSE >>, << 1, TRUE >> } }

\* Frames with the view where it was and panned by 100 pixels
AnchorInputs == { DefaultInput, [ DefaultInput EXCEPT !.pan = 100 ] }

InitPass == \E sc \in AnchorScenes :
                InitEngine(sc, [ DefaultEnv EXCEPT !.inputs = AnchorInputs ])

\* The loop of handleOcclusions goes on to its next entry
LoopStep == pc = "occlusion" /\ cur <= Len(m_labels) /\ cur' = cur + 1

\* The loop runs on, no other thread is needed for it: while it has an
\* entry left, it takes its next iteration
SpecPass == InitPass /\ [][Next]_vars /\ WF_cur(LoopStep)

\* Frames on viewports of several sizes, some of them narrower or lower
\* than a cell of the grid
ViewportInputs ==
    { [ DefaultInput EXCEPT !.viewport = vp ] :
        vp \in { << 800, 600 >>, << 512, 256 >>, << 256, 255 >>, << 255, 600 >>,
                 << 100, 100 >>, << 1, 1 >> } }

InitViewport == \E sc \in FrameScenes :
                    InitEngine(sc, [ DefaultEnv EXCEPT !.inputs = ViewportInputs ])

SpecViewport == InitViewport /\ [][Next]_vars

Init == \E sc \in HierarchyScenes \cup TypeScenes \cup TieScenes :
            InitEngine(sc, [ DefaultEnv EXCEPT !.colors = { 0, 1, 2 } ])

Spec == Init /\ [][Next]_vars

(***************************************************************************)
(* Properties                                                              *)
(***************************************************************************)
\* handleOcclusions has processed every entry of m_labels
PassDone == pc = "occlusion" /\ cur > Len(m_labels)

\* updateLabelSet has returned
FrameDone == pc = "idle" /\ view.frame > 0

\* Entry i of m_labels is placed: its label is not occluded
Placed(i) == ~ lab[m_labels[i].label].occluded

\* The OBBs entry i of m_labels holds in the arena
EntryOBBs(i) ==
    { m_obbs[m_labels[i].obbs.start + k] : k \in 1..m_labels[i].obbs.length }

\* One of the two labels is the parent of the other
Related(a, b) == Opt(a).parent = b \/ Opt(b).parent = a

\* C1: when handleOcclusions has finished, no OBB of a placed label
\* intersects an OBB of another placed label, unless one of the two labels
\* is the parent of the other.
C1_NoPlacedOverlap ==
    PassDone =>
        \A i, j \in DOMAIN m_labels :
            ( /\ i < j
              /\ Placed(i)
              /\ Placed(j)
              /\ ~ Related(m_labels[i].label, m_labels[j].label) )
            => \A a \in EntryOBBs(i), b \in EntryOBBs(j) : ~ intersect(a, b)

\* C2: after sortLabels the entry of a parent precedes the entry of each of
\* its children in m_labels.
C2_ParentBeforeChild ==
    pc = "sorted" =>
        \A i, j \in DOMAIN m_labels :
            Opt(m_labels[j].label).parent = m_labels[i].label => i < j

\* C3: labelComparator is a strict weak order over the entries collected in
\* a frame: irreflexive, asymmetric, transitive, and with a transitive
\* incomparability.
C3_StrictWeakOrder ==
    pc = "collected" =>
        IsStrictWeakOrder(Range(m_labels), LAMBDA a, b : labelComparator(lab, a, b))
\* Entries i and j of m_labels hold placed labels of one repeat group that
\* both have a repeat distance
RepeatPair(i, j) ==
    /\ Placed(i)
    /\ Placed(j)
    /\ Opt(m_labels[i].label).repeatGroup = Opt(m_labels[j].label).repeatGroup
    /\ Opt(m_labels[i].label).repeatDistance > 0
    /\ Opt(m_labels[j].label).repeatDistance > 0

\* The squared distance between the screen centers of entries i and j
CenterDistance2(i, j) ==
    distance2(lab[m_labels[i].label].screenCenter, lab[m_labels[j].label].screenCenter)

\* C4 (as stated): when handleOcclusions has finished, two placed labels of
\* one repeat group with repeat distances greater than 0 are at least the
\* repeat distance of each of them apart.
C4_RepeatDistanceOfBoth ==
    PassDone =>
        \A i, j \in DOMAIN m_labels :
            i # j /\ RepeatPair(i, j) =>
                CenterDistance2(i, j) >= Opt(m_labels[i].label).repeatDistance
                                          * Opt(m_labels[i].label).repeatDistance

\* C4 (amended): when handleOcclusions has finished, two placed labels of
\* one repeat group with repeat distances greater than 0 are at least as far
\* apart as the repeat distance of the one processed later.
C4_RepeatDistanceOfLater ==
    PassDone =>
        \A i, j \in DOMAIN m_labels :
            i < j /\ RepeatPair(i, j) =>
                CenterDistance2(i, j) >= Opt(m_labels[j].label).repeatDistance
                                          * Opt(m_labels[j].label).repeatDistance

\* A pass that placed two labels of one repeat group and suppressed a third
\* label of the group that lies within its repeat distance of a placed one
C4_Witness ==
    /\ PassDone
    /\ \E i, j, k \in DOMAIN m_labels :
        /\ i < j
        /\ RepeatPair(i, j)
        /\ i < k
        /\ ~ Placed(k)
        /\ Opt(m_labels[k].label).repeatGroup = Opt(m_labels[i].label).repeatGroup
        /\ CenterDistance2(i, k) < Opt(m_labels[k].label).repeatDistance
                                    * Opt(m_labels[k].label).repeatDistance
\* Label c ended its own processing in handleOcclusions occluded because
\* each anchor it tested collided
FailedByCollision(c) ==
    /\ \E k \in DOMAIN hist.tests : hist.tests[k][1] = c
    /\ \A k \in DOMAIN hist.tests : hist.tests[k][1] = c => hist.tests[k][3]

\* Label c is a required child that failed by collision
RequiredChildFailed(c) ==
    /\ Opt(c).parent # NoLabel
    /\ Opt(c).required
    /\ FailedByCollision(c)

\* Labels c and its parent both started the frame in state none
StartedNone(c) ==
    /\ hist.lab0[c].state = "none"
    /\ hist.lab0[Opt(c).parent].state = "none"

\* addVerticesToMesh was called in this frame for neither c nor its parent
NoVertices(c) ==
    /\ c \notin Range(hist.verts)
    /\ Opt(c).parent \notin Range(hist.verts)

\* C5 (as stated): when a required child has failed by collision its parent
\* is occluded at the end of the pass, and when both started the frame in
\* state none addVerticesToMesh is called for neither in that frame.
C5_RequiredChildPullsParent ==
    FrameDone =>
        \A c \in DOMAIN lab :
            RequiredChildFailed(c) =>
                /\ lab[Opt(c).parent].occluded
                /\ StartedNone(c) => NoVertices(c)

\* C5 (amended): the same, the second part only when child and parent are
\* both entries of m_labels and the transition skipping step called
\* skipTransitions() on neither of them in that frame.
C5_RequiredChildPullsParentInPass ==
    FrameDone =>
        \A c \in DOMAIN lab :
            RequiredChildFailed(c) =>
                /\ lab[Opt(c).parent].occluded
                /\ ( /\ StartedNone(c)
                     /\ \E i \in DOMAIN m_labels : m_labels[i].label = Opt(c).parent
                     /\ c \notin hist.skipCalls
                     /\ Opt(c).parent \notin hist.skipCalls )
                   => NoVertices(c)

\* A frame in which a required child failed by collision after its parent
\* had been placed, both starting in state none and untouched by the
\* transition skipping step
C5_Witness ==
    /\ FrameDone
    /\ \E c \in DOMAIN lab :
        /\ RequiredChildFailed(c)
        /\ StartedNone(c)
        /\ c \notin hist.skipCalls
        /\ Opt(c).parent \notin hist.skipCalls
        /\ \E k \in DOMAIN hist.tests :
             hist.tests[k][1] = Opt(c).parent /\ ~ hist.tests[k][3]
        /\ lab[Opt(c).parent].occluded
        /\ NoVertices(c)
\* The entry handleOcclusions processed last, its label, and the labels as
\* they were before it was processed
LastEntry == m_labels[cur - 1]

LastLabel == LastEntry.label

\* The label processed last was suppressed by its repeat distance
Suppressed ==
    /\ Opt(LastLabel).repeatDistance > 0
    /\ withinRepeatDistance(hist.labStep,
                            SelectSeq(m_repeatGroups, LAMBDA g : g[2] # LastLabel), LastLabel)

\* The label whose entry holds OBB q of the arena
Owner(q) ==
    m_labels[CHOOSE j \in DOMAIN m_labels :
                /\ m_labels[j].obbs.start <= q
                /\ q < m_labels[j].obbs.start + m_labels[j].obbs.length].label

\* The OBBs of the label processed last at its anchor a
OBBsAt(a) ==
    obbsOf(LastLabel, [ hist.labStep[LastLabel] EXCEPT !.anchorIndex = a ],
           SubSeqFrom(m_transforms, LastEntry.transform.start + 1, LastEntry.transform.length))

\* Anchor a of the label processed last is free: its OBBs intersect no OBB
\* inserted earlier in the pass by a label other than its parent
FreeAnchor(a) ==
    \A k \in DOMAIN OBBsAt(a) : \A item \in m_isect2d.items :
        ( /\ item.payload < LastEntry.obbs.start
          /\ intersect(OBBsAt(a)[k], m_obbs[item.payload + 1]) )
        => Owner(item.payload) = Opt(LastLabel).parent

\* The k-th anchor in cyclic order from the anchor the label started at
CyclicAnchor(k) ==
    (hist.labStep[LastLabel].anchorIndex + k) % Len(Opt(LastLabel).anchors)

\* C6: a label whose parent is not occluded and that is not suppressed by
\* its repeat distance ends placed at the first free anchor in cyclic order
\* from its anchorIndex, and ends occluded only if none of its anchors is
\* free.
C6_FirstFreeAnchor ==
    ( /\ pc = "occlusion"
      /\ cur > 1
      /\ ~ ParentOccluded(hist.labStep, LastLabel)
      /\ ~ Suppressed )
    => LET n == Len(Opt(LastLabel).anchors)
           free == { k \in 0..(n - 1) : FreeAnchor(CyclicAnchor(k)) }
       IN  IF free = {}
           THEN lab[LastLabel].occluded
           ELSE /\ ~ lab[LastLabel].occluded
                /\ lab[LastLabel].anchorIndex =
                     CyclicAnchor(CHOOSE k \in free : \A k2 \in free : k <= k2)
\* Entries i and j of m_labels hold point labels with a single anchor and
\* no parent that tie on every rule of labelComparator before the hash
TiedPoints(i, j) ==
    LET a == m_labels[i]
        b == m_labels[j]
    IN  /\ Opt(a.label).type = "point" /\ Opt(b.label).type = "point"
        /\ Len(Opt(a.label).anchors) = 1 /\ Len(Opt(b.label).anchors) = 1
        /\ Opt(a.label).parent = NoLabel /\ Opt(b.label).parent = NoLabel
        /\ a.proxy = b.proxy
        /\ a.priority = b.priority
        /\ (a.tile = NoTile) = (b.tile = NoTile)
        /\ (a.tile # NoTile /\ b.tile # NoTile) => a.tile.id[1] = b.tile.id[1]
        /\ hist.labSkip[a.label].occludedLastFrame = hist.labSkip[b.label].occludedLastFrame
        /\ visibleState(hist.labSkip[a.label]) = visibleState(hist.labSkip[b.label])

\* The OBBs of entries i and j overlap
Overlapping(i, j) == \E a \in EntryOBBs(i), b \in EntryOBBs(j) : intersect(a, b)

\* C7 (as stated): in a frame of two overlapping tied point labels, the
\* label with the lower hash is placed and the other is occluded, whichever
\* of the two has the lower hash.
C7_LowerHashWins ==
    (FrameDone /\ Len(m_labels) = 2) =>
        \A i, j \in DOMAIN m_labels :
            ( /\ TiedPoints(i, j)
              /\ Overlapping(i, j)
              /\ Opt(m_labels[i].label).hash < Opt(m_labels[j].label).hash )
            => Placed(i) /\ ~ Placed(j)

\* C7 (amended): the same for two labels that both belong to a tile.
C7_LowerHashWinsOnTile ==
    (FrameDone /\ Len(m_labels) = 2) =>
        \A i, j \in DOMAIN m_labels :
            ( /\ TiedPoints(i, j)
              /\ Overlapping(i, j)
              /\ m_labels[i].tile # NoTile
              /\ Opt(m_labels[i].label).hash < Opt(m_labels[j].label).hash )
            => Placed(i) /\ ~ Placed(j)

\* A frame of two overlapping tied labels of a tile in which the label
\* collected second has the lower hash and is the one placed
C7_Witness ==
    /\ FrameDone
    /\ Len(m_labels) = 2
    /\ TiedPoints(1, 2)
    /\ Overlapping(1, 2)
    /\ m_labels[1].tile # NoTile
    /\ Opt(m_labels[1].label).hash < Opt(m_labels[2].label).hash
    /\ hist.updated = << m_labels[2].label, m_labels[1].label, 3 >>
    /\ Placed(1)
    /\ ~ Placed(2)
\* The zoom of the frame before frame k; the first frame is compared
\* against zoom 0
ZoomBefore(k) == IF k = 1 THEN 0 ELSE hist.zooms[k - 1]

\* C8: in every frame so far the transition skipping step ran exactly when
\* the integer part of the zoom of the frame differs from the integer part
\* of the zoom of the frame before.
C8_SkipIffIntegerZoomChanged ==
    \A k \in DOMAIN hist.skips :
        hist.skips[k] = (IntZoom(ZoomBefore(k)) # IntZoom(hist.zooms[k]))

\* Frames at zoom 14.1, 14.9 and 15.0: the step ran in the first frame, not
\* in the second, and again in the third
C8_Witness ==
    /\ hist.zooms = << 141, 149, 150 >>
    /\ hist.skips = << TRUE, FALSE, TRUE >>

\* The transition skipping step of this frame has just run
SkipDone == pc = "occlusion" /\ cur = 1 /\ hist.skipRan

\* The live tiles of the frame
LiveKeys == { TileKey(view.tiles[i]) : i \in DOMAIN view.tiles }

\* The proxy tiles of a tile: its parent when zooming in, its four children
\* when zooming out
ProxyKeys(key) ==
    IF view.prevZoom < view.zoom
    THEN { [ source |-> key.source, id |-> getParent(key.id) ] }
    ELSE { [ source |-> key.source, id |-> getChild(key.id, i) ] : i \in 0..3 }

\* Label l1 is a label of a proxy tile of the tile of l0, found in the cache
\* or among the live tiles, under the same text or point style, that can
\* occlude, has the repeat group of l0 and is within max(dim) of l0
ProxyLabel(l0, l1) ==
    /\ Opt(l1).tile \in ProxyKeys(Opt(l0).tile)
    /\ Opt(l1).tile \in view.cache \cup LiveKeys
    /\ Opt(l1).style = Opt(l0).style
    /\ IsLabelStyle(scene.styles[Opt(l0).style])
    /\ canOcclude(Opt(l1))
    /\ Opt(l1).repeatGroup = Opt(l0).repeatGroup
    /\ distance2(lab[l0].screenCenter, lab[l1].screenCenter)
         < Max(Opt(l0).dim[1], Opt(l0).dim[2]) * Max(Opt(l0).dim[1], Opt(l0).dim[2])

\* Label l0 is a label of a live tile that can occlude and was in state
\* none when the step began
Candidate(l0) ==
    /\ Opt(l0).tile \in LiveKeys
    /\ canOcclude(Opt(l0))
    /\ hist.labSkip[l0].state = "none"

\* The step changes no label that was not in state none
OnlyNoneChanged ==
    \A l \in DOMAIN lab : hist.labSkip[l].state # "none" => lab[l] = hist.labSkip[l]

\* C9 (as stated): skipTransitions() is called on l0 exactly when l0 is a
\* candidate and some proxy label of it is in visibleState; labels not in
\* state none are not changed.
C9_SkipIffVisibleProxy ==
    SkipDone =>
        /\ \A l0 \in DOMAIN lab :
             l0 \in hist.skipCalls <=>
                /\ Candidate(l0)
                /\ \E l1 \in DOMAIN lab :
                     ProxyLabel(l0, l1) /\ visibleState(hist.labSkip[l1])
        /\ OnlyNoneChanged

\* The index of the tile of label l in the live tile list
TileIndex(l) == CHOOSE i \in DOMAIN view.tiles : TileKey(view.tiles[i]) = Opt(l).tile

\* skipTransitions() was called on l1 before the tile of l0 was visited
SkippedBefore(l0, l1) ==
    /\ l1 \in hist.skipCalls
    /\ TileIndex(l1) < TileIndex(l0)

\* C9 (amended): skipTransitions() is called on l0 exactly when l0 is a
\* candidate and some proxy label of it is in visibleState when the tile of
\* l0 is visited: it was so when the step began, or skipTransitions() was
\* called on it for a tile earlier in the live tile list.
C9_SkipIffVisibleProxyAtVisit ==
    SkipDone =>
        /\ \A l0 \in DOMAIN lab :
             l0 \in hist.skipCalls <=>
                /\ Candidate(l0)
                /\ \E l1 \in DOMAIN lab :
                     /\ ProxyLabel(l0, l1)
                     /\ visibleState(hist.labSkip[l1]) \/ SkippedBefore(l0, l1)
        /\ OnlyNoneChanged

\* A step that called skipTransitions() on a label for a proxy label found
\* in the tile cache, and on a second label whose only proxy label had been
\* made visible by the step itself
C9_Witness ==
    /\ SkipDone
    /\ \E l0, l1, l2 \in DOMAIN lab :
        /\ { l0, l1 } \subseteq hist.skipCalls
        /\ ProxyLabel(l1, l2)
        /\ Opt(l2).tile \in view.cache
        /\ visibleState(hist.labSkip[l2])
        /\ ProxyLabel(l0, l1)
        /\ ~ visibleState(hist.labSkip[l1])
        /\ lab[l0].state = "visible"
\* getLabel has been called since the last frame
Picked == hist.picked # << >>

\* The colour getLabel was called with, and what it returned
PickedColor == hist.picked[1].color

PickedResult == hist.picked[1].result

\* The entries of m_selectionLabels whose label is in visibleState and has
\* the colour getLabel was called with
Matches ==
    { i \in DOMAIN m_selectionLabels :
        /\ visibleState(lab[m_selectionLabels[i].label])
        /\ Opt(m_selectionLabels[i].label).selectionColor = PickedColor }

\* Label l was collected in the frame: its update succeeded
Collected(l) ==
    \/ \E i \in DOMAIN m_labels : m_labels[i].label = l
    \/ l \in Range(hist.evals)

\* C10: m_selectionLabels holds, in the order of collection, the labels
\* collected in the frame that have a selection colour; getLabel(c) returns
\* the first of its entries whose label is in visibleState and has colour c,
\* with its tile, and (null, null) when there is none; it returns no label
\* that is not in visibleState, and getLabel(0) returns (null, null).
C10_GetLabel ==
    Picked =>
        /\ [ i \in DOMAIN m_selectionLabels |-> m_selectionLabels[i].label ]
             = SelectSeq(hist.updated,
                         LAMBDA l : Collected(l) /\ Opt(l).selectionColor # 0)
        /\ Matches = {} => PickedResult = [ label |-> NoLabel, tile |-> NoTile ]
        /\ Matches # {} =>
             LET first == CHOOSE i \in Matches : \A j \in Matches : i <= j
             IN  PickedResult = [ label |-> m_selectionLabels[first].label,
                                  tile |-> m_selectionLabels[first].tile ]
        /\ PickedResult.label # NoLabel => visibleState(lab[PickedResult.label])
        /\ PickedColor = 0 => PickedResult = [ label |-> NoLabel, tile |-> NoTile ]

\* getLabel returned the second entry of m_selectionLabels: the first has
\* the same colour but its label is not in visibleState
C10_Witness ==
    /\ Picked
    /\ Len(m_selectionLabels) >= 2
    /\ Opt(m_selectionLabels[1].label).selectionColor = PickedColor
    /\ ~ visibleState(lab[m_selectionLabels[1].label])
    /\ PickedResult = [ label |-> m_selectionLabels[2].label,
                        tile |-> m_selectionLabels[2].tile ]

\* updateLabels has just collected the labels of the frame
CollectDone == pc = "collected"

\* Label l belongs to a mesh that updateLabels visits: a label set of a live
\* tile under one of the styles, or the mesh of a marker whose style is one
\* of the styles
Visited(l) ==
    IF Opt(l).tile = NoTile
    THEN \E m \in DOMAIN scene.markers, k \in DOMAIN scene.styles :
            Opt(l).marker = m /\ scene.markers[m].styleId = scene.styles[k].id
    ELSE /\ \E i \in DOMAIN view.tiles : TileKey(view.tiles[i]) = Opt(l).tile
         /\ \E k \in DOMAIN scene.styles :
               scene.styles[k].id = Opt(l).style /\ IsLabelStyle(scene.styles[k])

\* Label::update returns true for label l as it was when the frame began
UpdateOk(l) ==
    Label_update(l, hist.lab0[l], view,
                 IF canOcclude(Opt(l))
                 THEN AABB(-256, -256, view.viewport[1] + 256, view.viewport[2] + 256)
                 ELSE AABB(0, 0, view.viewport[1], view.viewport[2])).ok

\* Label l is to be collected into m_labels
ToCollect(l) ==
    /\ Visited(l)
    /\ view.drawAll \/ hist.lab0[l].state # "dead"
    /\ UpdateOk(l)
    /\ canOcclude(Opt(l))

\* C11: after the collection step m_labels holds exactly one entry, with the
\* tile and the priority of the label, for each label of a visited mesh that
\* is not dead (or draw_all_labels is set), whose update returned true and
\* that can occlude, and no other entry.
C11_CollectedEntries ==
    CollectDone =>
        /\ \A l \in DOMAIN lab :
             Cardinality({ i \in DOMAIN m_labels : m_labels[i].label = l })
                = IF ToCollect(l) THEN 1 ELSE 0
        /\ \A i \in DOMAIN m_labels :
             /\ m_labels[i].tile = Opt(m_labels[i].label).tile
             /\ m_labels[i].priority = Opt(m_labels[i].label).priority

\* A later frame with draw_all_labels set that collected a dead label, and
\* in which the update of another label failed
C11_Witness ==
    /\ CollectDone
    /\ view.frame > 1
    /\ view.drawAll
    /\ \E i \in DOMAIN m_labels : hist.lab0[m_labels[i].label].state = "dead"
    /\ \E l \in DOMAIN lab : Visited(l) /\ canOcclude(Opt(l)) /\ ~ UpdateOk(l)

\* A later frame without the flag that dropped a label that had died
C11_WitnessDropped ==
    /\ CollectDone
    /\ view.frame > 1
    /\ ~ view.drawAll
    /\ \E l \in DOMAIN lab : hist.lab0[l].state = "dead" /\ UpdateOk(l)

\* Label l was dead when the running frame began
DeadAtStart(l) == view.frame > 0 /\ hist.lab0[l].state = "dead"

\* Nothing in the frame has touched label l: no update, no entry, no
\* evalState, no vertices, no skipTransitions
Untouched(l) ==
    /\ l \notin Range(hist.updated)
    /\ l \notin Range(hist.evals)
    /\ l \notin Range(hist.verts)
    /\ l \notin hist.skipCalls
    /\ \A i \in DOMAIN m_labels : m_labels[i].label # l
    /\ \A i \in DOMAIN m_selectionLabels : m_selectionLabels[i].label # l
    /\ lab[l].state = "dead"
    /\ lab[l].alpha = hist.lab0[l].alpha
    /\ lab[l].occludedLastFrame = hist.lab0[l].occludedLastFrame
    /\ lab[l].screenCenter = hist.lab0[l].screenCenter
    /\ lab[l].anchorIndex = hist.lab0[l].anchorIndex

\* C12: with draw_all_labels off, a label that is dead when a frame begins
\* is not updated, not collected, not evaluated, not drawn and not changed
\* by the transition skipping step at any point of the frame, and is dead
\* when the frame ends.
C12_DeadStaysDead ==
    \A l \in DOMAIN lab : (DeadAtStart(l) /\ ~ view.drawAll) => Untouched(l)

\* The transition skipping step has run in a frame that began with a dead
\* label on a live tile, close to a label of a proxy tile that is in
\* visibleState and has its repeat group
C12_Witness ==
    /\ SkipDone
    /\ ~ view.drawAll
    /\ \E l0, l1 \in DOMAIN lab :
        /\ DeadAtStart(l0)
        /\ Opt(l0).tile \in LiveKeys
        /\ ProxyLabel(l0, l1)
        /\ visibleState(hist.labSkip[l1])
        /\ lab[l0].state = "dead"

\* How often label l occurs in the sequence s
Count(s, l) == Cardinality({ k \in DOMAIN s : s[k] = l })

\* An OBB of entry i of m_labels intersects the viewport rectangle
OnScreen(i) ==
    \E b \in EntryOBBs(i) :
        aabbIntersect(getExtent(b), AABB(0, 0, view.viewport[1], view.viewport[2]))

\* C13: while a frame collects, sorts and runs handleOcclusions, evalState
\* has been called for no entry of m_labels; when updateLabelSet returns it
\* has been called exactly once for each entry, and addVerticesToMesh at
\* most once, exactly for the entries whose label is then in visibleState
\* and has an OBB of its range that intersects the viewport.
C13_EvalOnceThenDraw ==
    /\ pc # "idle" =>
          \A i \in DOMAIN m_labels :
              /\ Count(hist.evals, m_labels[i].label) = 0
              /\ Count(hist.verts, m_labels[i].label) = 0
    /\ FrameDone =>
          \A i \in DOMAIN m_labels :
              /\ Count(hist.evals, m_labels[i].label) = 1
              /\ Count(hist.verts, m_labels[i].label)
                    = IF visibleState(lab[m_labels[i].label]) /\ OnScreen(i) THEN 1 ELSE 0

\* A frame that drew one entry and did not draw another that is placed
\* and in visibleState but lies outside the viewport
C13_Witness ==
    /\ FrameDone
    /\ \E i, j \in DOMAIN m_labels :
        /\ Count(hist.verts, m_labels[i].label) = 1
        /\ visibleState(lab[m_labels[j].label])
        /\ m_labels[j].obbs.length > 0
        /\ ~ OnScreen(j)
        /\ Count(hist.verts, m_labels[j].label) = 0

\* handleOcclusions is running or has finished its loop
InPass == pc = "occlusion"

\* Entry i has been processed and its label ended its own processing
\* placed: the last anchor it tested did not collide
EndedPlaced(i) ==
    /\ i < cur
    /\ \E k \in DOMAIN hist.tests :
         /\ hist.tests[k][1] = m_labels[i].label
         /\ ~ hist.tests[k][3]
         /\ hist.tests[k][2] = lab[m_labels[i].label].anchorIndex

\* The OBBs of entry i at the anchor its label is at
OBBsNow(i) ==
    obbsOf(m_labels[i].label, lab[m_labels[i].label],
           SubSeqFrom(m_transforms, m_labels[i].transform.start + 1,
                      m_labels[i].transform.length))

\* C14: during and after handleOcclusions, for every entry whose label
\* ended its own processing placed, the OBB range of the entry holds the
\* OBBs of the label at the anchor it was accepted at, and each of them is
\* in the grid with its index in the OBB arena as payload; the grid holds
\* nothing else.
C14_PlacedOBBsInGrid ==
    InPass =>
        /\ \A i \in DOMAIN m_labels :
             EndedPlaced(i) =>
                /\ m_labels[i].obbs.length = Len(OBBsNow(i))
                /\ m_labels[i].obbs.length > 0
                /\ \A k \in 1..m_labels[i].obbs.length :
                     /\ m_obbs[m_labels[i].obbs.start + k] = OBBsNow(i)[k]
                     /\ [ aabb |-> getExtent(OBBsNow(i)[k]),
                          payload |-> m_labels[i].obbs.start + k - 1 ] \in m_isect2d.items
        /\ \A item \in m_isect2d.items :
             \E i \in DOMAIN m_labels :
                /\ EndedPlaced(i)
                /\ m_labels[i].obbs.start <= item.payload
                /\ item.payload < m_labels[i].obbs.start + m_labels[i].obbs.length
                /\ item.aabb = getExtent(m_obbs[item.payload + 1])

\* The pass has placed a label of two OBBs behind another label, and a
\* label at an anchor other than its first
C14_Witness ==
    /\ InPass
    /\ \E i \in DOMAIN m_labels :
        /\ EndedPlaced(i)
        /\ m_labels[i].obbs.start > 0
        /\ m_labels[i].obbs.length = 2
        /\ { [ aabb |-> getExtent(OBBsNow(i)[k]),
                payload |-> m_labels[i].obbs.start + k - 1 ] : k \in 1..2 }
             \subseteq m_isect2d.items

\* The pass has placed a label at an anchor other than its first
C14_WitnessAnchor ==
    /\ InPass
    /\ \E i \in DOMAIN m_labels :
        /\ EndedPlaced(i)
        /\ lab[m_labels[i].label].anchorIndex > 0
        /\ m_labels[i].obbs.start > 0

\* Entry i has been processed by handleOcclusions, was not skipped for an
\* occluded parent, and its label is a TextLabel or a sprite
TextEntryDone(i) ==
    /\ i < cur
    /\ Opt(m_labels[i].label).cls # "curved"
    /\ \E k \in DOMAIN hist.tests : hist.tests[k][1] = m_labels[i].label

\* The first OBB of entry i, the position stored in its transform, and the
\* label of the entry as it is
FirstOBB(i) == m_obbs[m_labels[i].obbs.start + 1]

StoredPosition(i) == m_transforms[m_labels[i].transform.start + 1]

EntryLabel(i) == lab[m_labels[i].label]

\* The OBB of entry i is centered at position + m_anchor
CenteredAtAnchor(i) ==
    FirstOBB(i).c =
        << StoredPosition(i)[1] + m_anchor(m_labels[i].label, EntryLabel(i))[1],
           StoredPosition(i)[2] + m_anchor(m_labels[i].label, EntryLabel(i))[2] >>

\* The OBB of entry i is of size d
SizedAs(i, d) == FirstOBB(i).w = d[1] /\ FirstOBB(i).h = d[2]

\* dim - buffer of the label of entry i, grown by g
DimLessBuffer(i, g) ==
    << Opt(m_labels[i].label).dim[1] - Opt(m_labels[i].label).buffer[1] + g,
       Opt(m_labels[i].label).dim[2] - Opt(m_labels[i].label).buffer[2] + g >>

\* C15 (as stated): the label of a processed entry has one OBB, centered at
\* position + m_anchor, of size dim - buffer, or of size
\* dim + activation_distance_threshold when it was occluded in the last
\* frame.
C15_OneOBB ==
    InPass =>
        \A i \in DOMAIN m_labels :
            TextEntryDone(i) =>
                /\ m_labels[i].obbs.length = 1
                /\ CenteredAtAnchor(i)
                /\ IF EntryLabel(i).occludedLastFrame
                   THEN SizedAs(i, << Opt(m_labels[i].label).dim[1] + activation_distance_threshold,
                                      Opt(m_labels[i].label).dim[2] + activation_distance_threshold >>)
                   ELSE SizedAs(i, DimLessBuffer(i, 0))

\* C15 (amended): the size is dim - buffer, grown by
\* activation_distance_threshold when the label was occluded in the last
\* frame, and shrunk by 4 when the label is dead.
C15_OneOBBLessBuffer ==
    InPass =>
        \A i \in DOMAIN m_labels :
            TextEntryDone(i) =>
                /\ m_labels[i].obbs.length = 1
                /\ CenteredAtAnchor(i)
                /\ SizedAs(i, DimLessBuffer(i,
                       (IF EntryLabel(i).occludedLastFrame
                        THEN activation_distance_threshold ELSE 0)
                       - (IF EntryLabel(i).state = "dead" THEN 4 ELSE 0)))

\* The pass has processed, behind another label, a label with a buffer and
\* several anchors that was occluded in the last frame
C15_Witness ==
    /\ InPass
    /\ \E i \in DOMAIN m_labels :
        /\ TextEntryDone(i)
        /\ EntryLabel(i).occludedLastFrame
        /\ EntryLabel(i).state # "dead"
        /\ Opt(m_labels[i].label).buffer # << 0, 0 >>
        /\ Len(Opt(m_labels[i].label).anchors) > 1
        /\ m_labels[i].obbs.start > 0

\* The pass has processed a dead label
C15_WitnessDead ==
    /\ InPass
    /\ \E i \in DOMAIN m_labels : TextEntryDone(i) /\ EntryLabel(i).state = "dead"

\* Point p of the world projects into the viewport of the frame, up to the
\* margin of the clip test
Unclipped(p) ==
    /\ p[1] - view.pan >= - ClipEps /\ p[1] - view.pan <= view.viewport[1] + ClipEps
    /\ p[2] >= - ClipEps /\ p[2] <= view.viewport[2] + ClipEps

\* The length of the projected segment of line label l
ProjectedLength(l) ==
    Abs(Opt(l).world[2][1] - Opt(l).world[1][1]) + Abs(Opt(l).world[2][2] - Opt(l).world[1][2])

\* updateScreenTransform was called on label l in the frame, returned ok
\* and pushed n points to the transform arena
Projected(l, ok, n) == \E k \in DOMAIN hist.projected : hist.projected[k] = << l, ok, n >>

\* Label l is held by m_labels
IsEntry(l) == \E i \in DOMAIN m_labels : m_labels[i].label = l

\* C16: for a line label whose end points project unclipped,
\* updateScreenTransform returns false exactly when the length of the
\* projected segment is less than 0.7 * dim.x; a TextLabel for which it
\* returns false has pushed nothing to the transform arena, keeps its
\* screenCenter and is not collected; one for which it returns true has
\* pushed two points, and the arena holds two points, position and rotation,
\* for each label that was kept.
C16_ShortLineRejected ==
    CollectDone =>
        /\ \A k \in DOMAIN hist.projected :
             LET l == hist.projected[k][1]
                 ok == hist.projected[k][2]
                 n == hist.projected[k][3]
             IN  /\ ( /\ Opt(l).type = "line"
                       /\ Unclipped(Opt(l).world[1])
                       /\ Unclipped(Opt(l).world[2]) )
                     => (ok <=> 10 * ProjectedLength(l) >= 7 * Opt(l).dim[1])
                 /\ ~ ok => /\ n = 0
                            /\ lab[l].screenCenter = hist.lab0[l].screenCenter
                            /\ ~ IsEntry(l)
                 /\ (ok /\ Opt(l).cls # "curved") => n = 2
        /\ \A i \in DOMAIN m_labels :
             /\ Projected(m_labels[i].label, TRUE, m_labels[i].transform.length)
             /\ Opt(m_labels[i].label).cls # "curved" =>
                   /\ m_labels[i].transform.length = 2
                   /\ m_transforms[m_labels[i].transform.start + 2] \in
                         { << 1, 0 >>, << 0, 1 >>, << 0, -1 >> }

\* A later frame in which a line label of projected length 50 and dim.x 100
\* was rejected with both end points on screen, and a point label that had
\* a screenCenter was clipped and kept it
C16_Witness ==
    /\ CollectDone
    /\ view.frame > 1
    /\ \E l, p \in DOMAIN lab :
        /\ Opt(l).type = "line"
        /\ Unclipped(Opt(l).world[1]) /\ Unclipped(Opt(l).world[2])
        /\ ProjectedLength(l) = 50
        /\ Opt(l).dim[1] = 100
        /\ Projected(l, FALSE, 0)
        /\ Opt(p).type = "point"
        /\ Projected(p, FALSE, 0)
        /\ hist.lab0[p].screenCenter # << 0, 0 >>
        /\ lab[p].screenCenter = hist.lab0[p].screenCenter

\* A line label whose projected length is exactly 0.7 * dim.x was accepted
C16_WitnessEdge ==
    /\ CollectDone
    /\ \E l \in DOMAIN lab :
        /\ Opt(l).type = "line"
        /\ 10 * ProjectedLength(l) = 7 * Opt(l).dim[1]
        /\ IsEntry(l)

\* updateLabelSet has returned from a call with dt = 0 that had the
\* arguments of the call before it
Repeated ==
    /\ FrameDone
    /\ view.frame > 1
    /\ view.dt = 0
    /\ hist.inputs[view.frame] = hist.inputs[view.frame - 1]

\* The call left label l in the state it was in, with the placement
\* decision it had
SameOutcome(l) ==
    /\ lab[l].state = hist.lab0[l].state
    /\ lab[l].occluded = hist.lab0[l].occluded
    /\ lab[l].anchorIndex = hist.lab0[l].anchorIndex

Updated(l) == l \in Range(hist.updated)

\* The first of the two calls left label l settled: in the state and at the
\* anchor it found it in, and, when the label is one that is updated,
\* occluded exactly if it had been occluded in the frame before (otherwise
\* with the occlusion flag it found)
Settled(l) ==
    /\ hist.lab0[l].state = hist.labBefore[l].state
    /\ hist.lab0[l].anchorIndex = hist.labBefore[l].anchorIndex
    /\ hist.lab0[l].alpha = hist.labBefore[l].alpha
    /\ hist.lab0[l].timer = hist.labBefore[l].timer
    /\ IF Updated(l)
       THEN hist.lab0[l].occluded = hist.lab0[l].occludedLastFrame
       ELSE hist.lab0[l].occluded = hist.labBefore[l].occluded

\* labelComparator was a strict weak order over the entries when they were
\* sorted
SortDefined ==
    IsStrictWeakOrder(Range(m_labels), LAMBDA a, b : labelComparator(hist.labSkip, a, b))

AddressMaps ==
    { ad \in [ DOMAIN scene.labels -> DOMAIN scene.labels ] :
        \A l, k \in DOMAIN scene.labels : ad[l] = ad[k] => l = k }

\* sortLabels is about to run
AtSort == pc = "collected"

\* The sort has one result, and the same one wherever the labels are stored
OrderIgnoresAddresses ==
    \A ad \in AddressMaps :
        \A r1 \in sortLabels(lab, m_labels), r2 \in sortLabelsAt(ad, lab, m_labels) : r1 = r2

\* Entries a and b are equal under every rule of labelComparator before the
\* comparison of the addresses
TiedUpToAddress(a, b) ==
    /\ a.label # b.label
    /\ a.proxy = b.proxy
    /\ a.priority = b.priority
    /\ a.tile # NoTile /\ b.tile # NoTile
    /\ a.tile.id[1] = b.tile.id[1]
    /\ lab[a.label].occludedLastFrame = lab[b.label].occludedLastFrame
    /\ visibleState(lab[a.label]) = visibleState(lab[b.label])
    /\ ~ (Opt(a.label).type = "line" /\ Opt(b.label).type = "line")
    /\ Opt(a.label).hash = Opt(b.label).hash
    /\ ~ (Opt(a.label).type = "curved" /\ Opt(b.label).type = "curved")

NoAddressTie == \A a, b \in Range(m_labels) : ~ TiedUpToAddress(a, b)

\* labelComparator is a strict weak order over the collected entries
ComparatorDefined ==
    IsStrictWeakOrder(Range(m_labels), LAMBDA a, b : labelComparator(lab, a, b))

\* C18 (as stated): two runs that differ only in where the labels are stored
\* in memory sort the collected labels into the same order.
C18_Deterministic == AtSort => OrderIgnoresAddresses

\* C18 (amended): the sorted order does not depend on where the labels are
\* stored when labelComparator is a strict weak order over the collected
\* labels and no two of them tie up to the comparison of the addresses.
C18_DeterministicWithoutTies ==
    (AtSort /\ ComparatorDefined /\ NoAddressTie) => OrderIgnoresAddresses

\* Labels are sorted that no rule before the hash tells apart, whose hashes
\* differ and whose order in memory is the reverse of the order of the hashes
C18_Witness ==
    /\ AtSort
    /\ ComparatorDefined
    /\ NoAddressTie
    /\ \E a, b \in Range(m_labels) :
        /\ a.proxy = b.proxy /\ a.priority = b.priority
        /\ a.tile # NoTile /\ b.tile # NoTile /\ a.tile.id[1] = b.tile.id[1]
        /\ lab[a.label].occludedLastFrame = lab[b.label].occludedLastFrame
        /\ visibleState(lab[a.label]) = visibleState(lab[b.label])
        /\ Opt(a.label).hash < Opt(b.label).hash
        /\ Addr[a.label] > Addr[b.label]

\* An entry of m_labels has just been processed by handleOcclusions
StepDone == pc = "occlusion" /\ cur > 1

\* The parent of the label processed last was occluded when the label was
\* reached
SkippedForParent ==
    /\ StepDone
    /\ Opt(LastLabel).parent # NoLabel
    /\ hist.labStep[Opt(LastLabel).parent].occluded

\* C19: a label reached while its parent is occluded is marked occluded and
\* skipped: no anchor is tried, its anchorIndex is unchanged, it gets no OBB
\* range and no OBB in the grid, it is not registered in a repeat group, and
\* its parent and every other label are left as they were.
C19_OccludedParentSkips ==
    SkippedForParent =>
        /\ lab[LastLabel].occluded
        /\ \A k \in DOMAIN hist.tests : hist.tests[k][1] # LastLabel
        /\ lab[LastLabel].anchorIndex = hist.labStep[LastLabel].anchorIndex
        /\ LastEntry.obbs = [ start |-> 0, length |-> 0 ]
        /\ \A it \in m_isect2d.items :
              \E j \in 1..(cur - 2) :
                  /\ m_labels[j].obbs.start <= it.payload
                  /\ it.payload < m_labels[j].obbs.start + m_labels[j].obbs.length
        /\ \A k \in DOMAIN m_repeatGroups : m_repeatGroups[k][2] # LastLabel
        /\ \A l \in DOMAIN lab : l # LastLabel => lab[l] = hist.labStep[l]

\* A required sprite with a repeat distance and several anchors, not
\* occluded before, was skipped for its occluded parent while the grid
\* held the OBB of a placed label
C19_Witness ==
    /\ SkippedForParent
    /\ Opt(LastLabel).required
    /\ Opt(LastLabel).repeatDistance > 0
    /\ ~ hist.labStep[LastLabel].occluded
    /\ m_isect2d.items # {}

\* A required label with several anchors was skipped for its occluded parent
C19_WitnessAnchors ==
    /\ SkippedForParent
    /\ Opt(LastLabel).required
    /\ Len(Opt(LastLabel).anchors) > 1

\* The loop of handleOcclusions is about to test the OBBs of entry cur
\* against the grid
AboutToTest ==
    /\ InPass
    /\ cur <= Len(m_labels)
    /\ ~ ParentOccluded(lab, m_labels[cur].label)

\* m_labels as the callback of the intersection test of entry cur sees it:
\* the OBB range of the entry starts at the end of the arena
EntriesSeen == [ m_labels EXCEPT ![cur].obbs.start = Len(m_obbs) ]

\* C20: during handleOcclusions findLabel returns, for every payload stored
\* in the grid, the label whose OBB range contains it.
C20_FindLabelFindsOwner ==
    AboutToTest =>
        \A it \in m_isect2d.items : findLabel(EntriesSeen, it.payload) = Owner(it.payload)

\* The label processed last is a required child that ended occluded and
\* occluded its parent, which was not occluded before
Propagated ==
    /\ StepDone
    /\ lab[LastLabel].occluded
    /\ Opt(LastLabel).required
    /\ Opt(LastLabel).parent # NoLabel
    /\ ~ hist.labStep[Opt(LastLabel).parent].occluded

\* The entries of label l processed before the last one
EarlierEntries(l) == { j \in 1..(cur - 2) : m_labels[j].label = l }

\* C21: when the failure of a required child occludes its parent P, the
\* only change outside the child is the occlusion flag of P: every other
\* label, the OBBs in the grid (those of P included) and the repeat groups
\* (the registration of P included) are as they were before the step.
C21_PropagationOneWay ==
    Propagated =>
        /\ lab[Opt(LastLabel).parent]
              = [ hist.labStep[Opt(LastLabel).parent] EXCEPT !.occluded = TRUE ]
        /\ \A k \in DOMAIN lab :
              (k # LastLabel /\ k # Opt(LastLabel).parent) => lab[k] = hist.labStep[k]
        /\ m_isect2d.items = hist.gridStep
        /\ m_repeatGroups = hist.groupsStep
        /\ \A j \in EarlierEntries(Opt(LastLabel).parent) :
              \A q \in m_labels[j].obbs.start
                        .. (m_labels[j].obbs.start + m_labels[j].obbs.length - 1) :
                  \E it \in m_isect2d.items : it.payload = q

\* A required child failed and occluded its parent, which had been placed
\* before it and keeps its OBB in the grid
C21_Witness ==
    /\ Propagated
    /\ \E j \in EarlierEntries(Opt(LastLabel).parent) :
          /\ m_labels[j].obbs.length > 0
          /\ \E it \in m_isect2d.items : it.payload = m_labels[j].obbs.start

\* The positions of hist.tests at which label l was tested against the grid
TestsOf(l) == { k \in DOMAIN hist.tests : hist.tests[k][1] = l }

\* No label was tested more often than it has anchors, nor twice at the
\* same anchor
TestedOnce ==
    \A l \in DOMAIN lab :
        /\ Cardinality(TestsOf(l)) <= Len(Opt(l).anchors)
        /\ \A j, k \in TestsOf(l) : hist.tests[j][2] = hist.tests[k][2] => j = k

\* C22: the anchor search of a label with n anchors tests at most n anchor
\* positions, each at most once, and the occlusion pass, once started,
\* reaches the end of m_labels.
C22_AnchorSearchTerminates == [] TestedOnce /\ (InPass ~> PassDone)

\* The pass has ended and a label with three anchors that started at a
\* later anchor than its first was tested at all three and ended occluded
C22_Witness ==
    /\ PassDone
    /\ \E l \in DOMAIN lab :
        /\ Len(Opt(l).anchors) = 3
        /\ Cardinality(TestsOf(l)) = 3
        /\ hist.labPass[l].anchorIndex > 0
        /\ lab[l].occluded

\* Label l was occluded by the failure of a required child during the pass
OccludedByChild(l) ==
    \E j \in 1..(cur - 1) :
        /\ Opt(m_labels[j].label).parent = l
        /\ Opt(m_labels[j].label).required
        /\ lab[m_labels[j].label].occluded

\* Every label of m_labels that is occluded is at the anchor it had before
\* the pass
OccludedKeepAnchor ==
    \A i \in DOMAIN m_labels :
        lab[m_labels[i].label].occluded =>
            lab[m_labels[i].label].anchorIndex = hist.labPass[m_labels[i].label].anchorIndex

\* The label processed last was suppressed by its repeat distance: it was
\* not tested against the grid and is occluded, at the anchor it had
SuppressedUntested ==
    (StepDone /\ ~ SkippedForParent /\ Suppressed) =>
        /\ TestsOf(LastLabel) = {}
        /\ lab[LastLabel].occluded
        /\ lab[LastLabel].anchorIndex = hist.labStep[LastLabel].anchorIndex

\* C23 (as stated): a label that ends handleOcclusions occluded has the
\* anchorIndex it had before the pass, and a label suppressed by its repeat
\* distance is not tested at any anchor and ends occluded.
C23_OccludedKeepsAnchor ==
    /\ PassDone => OccludedKeepAnchor
    /\ SuppressedUntested

\* C23 (amended): a label that ends handleOcclusions occluded has the
\* anchorIndex it had before the pass, unless its own anchor search placed
\* it and the failure of a required child occluded it afterwards; a label
\* suppressed by its repeat distance is not tested at any anchor and ends
\* occluded.
C23_OccludedKeepsAnchorUnlessPlaced ==
    /\ PassDone =>
          \A i \in DOMAIN m_labels :
              lab[m_labels[i].label].occluded =>
                  IF EndedPlaced(i)
                  THEN OccludedByChild(m_labels[i].label)
                  ELSE lab[m_labels[i].label].anchorIndex
                          = hist.labPass[m_labels[i].label].anchorIndex
    /\ SuppressedUntested

\* The pass has ended with a label that started at its second anchor, was
\* tested at both of its anchors, and is occluded at its second anchor
C23_Witness ==
    /\ PassDone
    /\ \E i \in DOMAIN m_labels :
        /\ lab[m_labels[i].label].occluded
        /\ ~ EndedPlaced(i)
        /\ Len(Opt(m_labels[i].label).anchors) = 2
        /\ Cardinality(TestsOf(m_labels[i].label)) = 2
        /\ hist.labPass[m_labels[i].label].anchorIndex = 1
        /\ lab[m_labels[i].label].anchorIndex = 1

\* A sprite with several anchors was suppressed by its repeat distance
C23_WitnessSuppressed ==
    /\ StepDone /\ ~ SkippedForParent /\ Suppressed
    /\ Len(Opt(LastLabel).anchors) > 1
    /\ m_isect2d.items # {}

\* A label that its anchor search had placed at a later anchor was occluded
\* by a required child
C23_WitnessPlacedThenOccluded ==
    /\ PassDone
    /\ \E i \in DOMAIN m_labels :
        /\ lab[m_labels[i].label].occluded
        /\ EndedPlaced(i)
        /\ lab[m_labels[i].label].anchorIndex # hist.labPass[m_labels[i].label].anchorIndex

\* Label l is a TextLabel
IsTextLabel(l) == Opt(l).cls = "text"

\* The label processed last is a TextLabel that was reached not occluded
\* and with no occluded parent
TextLabelReached ==
    /\ StepDone
    /\ IsTextLabel(LastLabel)
    /\ ~ SkippedForParent
    /\ ~ hist.labStep[LastLabel].occluded

\* C24: every TextLabel has repeatDistance 0 whatever its options were
\* built with; handleOcclusions never occludes one by withinRepeatDistance,
\* so it is tested against the grid, and m_repeatGroups holds no TextLabel.
C24_TextLabelNoRepeat ==
    /\ \A l \in DOMAIN lab : IsTextLabel(l) => Opt(l).repeatDistance = 0
    /\ \A k \in DOMAIN m_repeatGroups : ~ IsTextLabel(m_repeatGroups[k][2])
    /\ TextLabelReached => TestsOf(LastLabel) # {}

\* A TextLabel built with a repeat distance was placed within that distance
\* of a registered label of its repeat group
C24_Witness ==
    /\ TextLabelReached
    /\ ~ lab[LastLabel].occluded
    /\ scene.options[LastLabel].repeatDistance > 0
    /\ \E k \in DOMAIN m_repeatGroups :
        /\ m_repeatGroups[k][1] = Opt(LastLabel).repeatGroup
        /\ distance2(lab[LastLabel].screenCenter, lab[m_repeatGroups[k][2]].screenCenter)
              < scene.options[LastLabel].repeatDistance
                  * scene.options[LastLabel].repeatDistance

\* C25: for a viewport of positive width and height, the cell counts that
\* updateLabelSet passes to m_isect2d.resize are at least 1 in each
\* dimension.
C25_GridHasCells ==
    (InPass /\ view.viewport[1] > 0 /\ view.viewport[2] > 0) =>
        /\ m_isect2d.split[1] >= 1
        /\ m_isect2d.split[2] >= 1

====
